---- MODULE Spec2Model ----
(***************************************************************************)
(* A model of flightpandas: the time-gap splitter (splitter.py), the role  *)
(* bindings of a Flight (flight.py, base.py), the helper pipelines         *)
(* (helper_base.py, simplifier.py) and the path operations (flight.py,     *)
(* flight_collection.py, simplifier.py).                                   *)
(*                                                                         *)
(* Several specifications share the module.  SplitSpec follows the rows of *)
(* a table through TimeGapSplitter._eval_flight/_eval_flight_collection;   *)
(* SplitColumnSpec does so with the columns of the rows by name.  RoleSpec *)
(* follows the column labels and the four optional role bindings of an     *)
(* object through Flight.__init__, the derived-frame operations that end   *)
(* in Flight.__finalize__, and the role accessors.  ResolveSpec calls      *)
(* _validate_attr by itself on the objects Flight.__init__ takes and makes.*)
(* PipeSpec builds stages on an object and on one another and evaluates    *)
(* them.  PathSpec calls the path operations and the row recovery of RDP   *)
(* on the rows of a Flight.  ChainSpec follows helpers and their lists of  *)
(* stages by reference, SourceSpec the frame objects a splitter reads and  *)
(* writes.  FillSpec resamples one non-numeric column, ResampleSpec        *)
(* follows the role bindings through resample().  OrderSpec compares       *)
(* flights[i] with the order of iteration, RegroupSpec runs the            *)
(* collection-level operations that group again.  Each specification       *)
(* leaves the variables of the others at their idle values.                *)
(***************************************************************************)
EXTENDS Integers, Sequences, FiniteSets, TLC

(***************************************************************************)
(* Bounds of the model.                                                    *)
(***************************************************************************)
MaxRows == 3        \* rows of the table given to the splitter
MaxTime == 3        \* index values are 0..MaxTime (time units)
MaxGap == 1         \* gap thresholds are 0..MaxGap

MaxDup == 2         \* a column label occurs at most MaxDup times in a frame
MaxCalls == 2       \* calls made in one run on the object at hand

VARIABLES
    table,      \* splitter input: the rows of the Flight, in stored order
    gap,        \* TimeGapSplitter.gap
    stage,      \* "input" | "flight" | "collection": which _eval_* wrote out
    out,        \* rows of the frame behind the returned collection
    frame,      \* the object at hand: its class, column labels, role bindings
    src,        \* the object the last call was made on
    call,       \* the last call: its name, arguments and outcome
    ncalls,     \* the number of calls made so far
    split_column_name,  \* TimeGapSplitter.split_column_name
    extra,      \* the columns the splitter input has besides the group key
    obj,        \* the Flight or FlightCollection a pipeline is built on
    pipes,      \* HelperBase.pipes of the helper at hand, <<>> before the first
    SCIPY_INSTALLED,    \* simplifier.SCIPY_INSTALLED
    res,        \* the last pipeline operation and its outcome
    track,      \* the rows of a Flight by group key and position
    geom,       \* the last path operation and its outcome
    helpers,    \* the helpers made so far, each with its pipes (a list, by reference) and data
    lists,      \* the list objects: the stages each holds, in order
    looped,     \* the last eval(): the helper and the stages its loop went over
    samples,    \* a non-numeric column of a Flight: its rows, each with index value and value
    filled,     \* the last resampling of the column and the column it gave
    source,     \* the Flight that is resampled, and the key column when it is grouped
    resampled,  \* the last resample() and the Flight it gave
    grouped,    \* a collection: the key tuple of each row of its Flight, and its sort flag
    given,      \* the last iteration or flights[i] and what it gave
    collection, \* a collection: how its keys were given and the key value of each row
    regrouped,  \* the last collection-level operation and its outcome
    heap,       \* the frame objects: the rows and columns each holds, by reference
    setup,      \* the splitter and the Flight it was built on as it was then
    results     \* the frames returned by the evaluations so far, by reference

splitVars == <<table, gap, stage, out>>

roleVars == <<frame, src, call, ncalls>>

colVars == <<split_column_name, extra>>

pipeVars == <<obj, pipes, SCIPY_INSTALLED, res>>

pathVars == <<track, geom>>

chainVars == <<helpers, lists, looped>>

fillVars == <<samples, filled>>

resampleVars == <<source, resampled>>

orderVars == <<grouped, given>>

regroupVars == <<collection, regrouped>>

sourceVars == <<heap, setup, results>>

vars == <<table, gap, stage, out, frame, src, call, ncalls,
          split_column_name, extra, obj, pipes, SCIPY_INSTALLED, res, track, geom,
          helpers, lists, looped,
          samples, filled,
          source, resampled,
          grouped, given,
          collection, regrouped,
          heap, setup, results>>

\* the variables each part of the model leaves alone
outsideSplit == <<roleVars, colVars, pipeVars, pathVars, chainVars, fillVars, resampleVars, orderVars, regroupVars, sourceVars>>

outsideRole == <<splitVars, colVars, pipeVars, pathVars, chainVars, fillVars, resampleVars, orderVars, regroupVars, sourceVars>>

outsidePipe == <<splitVars, roleVars, colVars, pathVars, chainVars, fillVars, resampleVars, orderVars, regroupVars, sourceVars>>

outsidePath == <<splitVars, roleVars, colVars, pipeVars, chainVars, fillVars, resampleVars, orderVars, regroupVars, sourceVars>>

outsideChain == <<splitVars, roleVars, colVars, pipeVars, pathVars, fillVars, resampleVars, orderVars, regroupVars, sourceVars>>

outsideFill == <<splitVars, roleVars, colVars, pipeVars, pathVars, chainVars, resampleVars, orderVars, regroupVars, sourceVars>>

outsideResample == <<splitVars, roleVars, colVars, pipeVars, pathVars, chainVars, fillVars, orderVars, regroupVars, sourceVars>>

outsideOrder == <<splitVars, roleVars, colVars, pipeVars, pathVars, chainVars, fillVars, resampleVars, regroupVars, sourceVars>>

outsideRegroup == <<splitVars, roleVars, colVars, pipeVars, pathVars, chainVars, fillVars, resampleVars, orderVars, sourceVars>>

outsideSource == <<splitVars, roleVars, colVars, pipeVars, pathVars, chainVars, fillVars, resampleVars, orderVars, regroupVars>>

\* the values the variables of a part have in the runs of another part
SplitIdle == table = <<>> /\ gap = 0 /\ stage = "idle" /\ out = <<>>

RoleIdle == frame = <<>> /\ src = <<>> /\ call = <<>> /\ ncalls = 0

ColIdle == split_column_name = "split" /\ extra = {}

PipeIdle == obj = <<>> /\ pipes = <<>> /\ SCIPY_INSTALLED = TRUE /\ res = <<>>

PathIdle == track = <<>> /\ geom = <<>>

ChainIdle == helpers = <<>> /\ lists = <<>> /\ looped = <<>>

FillIdle == samples = <<>> /\ filled = <<>>

ResampleIdle == source = <<>> /\ resampled = <<>>

OrderIdle == grouped = <<>> /\ given = <<>>

RegroupIdle == collection = <<>> /\ regrouped = <<>>

SourceIdle == heap = <<>> /\ setup = <<>> /\ results = <<>>

(***************************************************************************)
(* Values.  A time is an integer number of time units; a Timedelta too.    *)
(* An optional time difference is <<>> (NaT) or <<d>>.                     *)
(***************************************************************************)
NaT == <<>>

Times == 0..MaxTime

\* a gap threshold is a duration: zero or more time units
Gaps == 0..MaxGap

\* the values of the grouping column, in their sort order
KeyOrder == <<"A", "B">>

Keys == {KeyOrder[i] : i \in 1..Len(KeyOrder)}

KeyRank(k) == CHOOSE i \in 1..Len(KeyOrder) : KeyOrder[i] = k

\* the rows of the table with their identity (position in the stored order)
Rows(tbl) == [i \in 1..Len(tbl) |-> [id |-> i, key |-> tbl[i].key, t |-> tbl[i].t]]

(***************************************************************************)
(* pandas primitives used by the splitter.                                 *)
(***************************************************************************)
\* the rows of data at the positions in S that may come first in time order
Earliest(data, S) == {x \in S : \A y \in S : data[x].t <= data[y].t}

RECURSIVE TimeOrders(_, _)
\* the orders (sequences of positions) of the positions in S by ascending time
TimeOrders(data, S) ==
    IF S = {} THEN {<<>>}
    ELSE UNION {{<<x>> \o rest : rest \in TimeOrders(data, S \ {x})} :
                  x \in Earliest(data, S)}

\* DataFrame.sort_index() on the time index: default kind "quicksort" is not
\* stable, so rows with equal index values come out in any order.
sort_index(data) ==
    {[i \in 1..Len(data) |-> data[p[i]]] : p \in TimeOrders(data, 1..Len(data))}

\* (key, time, stored position) order: the MultiIndex sort is a stable lexsort
LexLess(data, a, b) ==
    \/ KeyRank(data[a].key) < KeyRank(data[b].key)
    \/ /\ data[a].key = data[b].key
       /\ \/ data[a].t < data[b].t
          \/ data[a].t = data[b].t /\ a < b

RECURSIVE LexOrder(_, _)
\* the positions in S in stable (key, time) order
LexOrder(data, S) ==
    IF S = {} THEN <<>>
    ELSE LET x == CHOOSE y \in S : \A z \in S \ {y} : LexLess(data, y, z)
         IN <<x>> \o LexOrder(data, S \ {x})

\* reset_index().set_index([*group_index, time_index]).sort_index()
sort_index_multi(data) ==
    LET p == LexOrder(data, 1..Len(data))
    IN [i \in 1..Len(data) |-> data[p[i]]]

\* index.to_series()
to_series(data) == [i \in 1..Len(data) |-> data[i].t]

\* Series.diff(): the first element has no predecessor
diff(s) == [i \in 1..Len(s) |-> IF i = 1 THEN NaT ELSE <<s[i] - s[i - 1]>>]

\* Series.fillna(value)
fillna(s, value) == [i \in 1..Len(s) |-> IF s[i] = NaT THEN <<value>> ELSE s[i]]

\* mutant: >= in place of >
ge(s, g) == [i \in 1..Len(s) |-> s[i][1] >= g]

\* t_diff > self.gap, elementwise
gt(s, g) == [i \in 1..Len(s) |-> s[i][1] > g]

\* mutant: the crossings not accumulated
no_cumsum(b) == [i \in 1..Len(b) |-> IF b[i] THEN 1 ELSE 0]

\* Series.cumsum() of booleans
cumsum(b) == [i \in 1..Len(b) |-> Cardinality({j \in 1..i : b[j]})]

PairLess(a, b) == a[1] < b[1] \/ (a[1] = b[1] /\ a[2] < b[2])

\* groupby([...keys...]).ngroup(): each row gets the rank of its key tuple
\* among the observed key tuples, in sorted order (sort=True)
ngroup(ks) ==
    LET seen == {ks[i] : i \in 1..Len(ks)}
    IN [i \in 1..Len(ks) |-> Cardinality({k \in seen : PairLess(k, ks[i])})]

\* data[self.split_column_name] = values
set_split(data, values) ==
    [i \in 1..Len(data) |->
        [id |-> data[i].id, key |-> data[i].key, t |-> data[i].t, split |-> values[i]]]

(***************************************************************************)
(* TimeGapSplitter                                                         *)
(***************************************************************************)
\* mutant: the group key columns left out of the groupby keys
split_group_keys_cumsum_only(data, crossings) ==
    [i \in 1..Len(data) |-> <<0, crossings[i]>>]

\* the grouping keys handed to groupby(...) in _eval_flight_collection
split_group_keys(data, crossings) ==
    [i \in 1..Len(data) |-> <<KeyRank(data[i].key), crossings[i]>>]

\* _eval_flight after the sort: data is one outcome of flight.sort_index()
eval_flight_sorted(data, g) ==
    LET t_diff == fillna(diff(to_series(data)), 0)
    IN set_split(data, cumsum(gt(t_diff, g)))

\* the frames _eval_flight can return for a Flight with these rows
eval_flight(flight, g) == {eval_flight_sorted(data, g) : data \in sort_index(flight)}

\* mutant: the rows sorted by time alone, the group key left out of the index
collection_sort_time_only(data) ==
    LET p == CHOOSE q \in TimeOrders(data, 1..Len(data)) :
                 \A i \in 1..(Len(q) - 1) : data[q[i]].t = data[q[i + 1]].t => q[i] < q[i + 1]
    IN [i \in 1..Len(data) |-> data[p[i]]]

\* mutant: only the first row of each (key, time) index entry is kept
collection_sort_first_per_entry(data) ==
    LET firsts == {i \in 1..Len(data) :
                     \A j \in 1..(i - 1) :
                        data[j].key # data[i].key \/ data[j].t # data[i].t}
        p == LexOrder(data, firsts)
    IN [i \in 1..Len(p) |-> data[p[i]]]

\* the order in which _eval_flight_collection lays the rows out
collection_sort(data) == sort_index_multi(data)

\* _eval_flight_collection
eval_flight_collection(fc_data, g) ==
    LET data == collection_sort(fc_data)
        t_diff == fillna(diff(to_series(data)), 0)
    IN set_split(data, ngroup(split_group_keys(data, cumsum(gt(t_diff, g)))))

(***************************************************************************)
(* SplitSpec: a splitter built on a table with a gap, then evaluated on    *)
(* the Flight itself or on the collection grouped by the key column.  One  *)
(* evaluation per run: the result depends on table and gap alone.          *)
(***************************************************************************)
Tables == UNION {[1..n -> [key : Keys, t : Times]] : n \in 0..MaxRows}

SplitInit ==
    /\ table \in Tables
    /\ gap \in Gaps
    /\ stage = "input"
    /\ out = <<>>
    /\ RoleIdle /\ ColIdle /\ PipeIdle /\ PathIdle /\ ChainIdle /\ FillIdle /\ ResampleIdle /\ OrderIdle /\ RegroupIdle /\ SourceIdle

EvalFlight ==
    /\ stage = "input"
    /\ out' \in eval_flight(Rows(table), gap)
    /\ stage' = "flight"
    /\ UNCHANGED <<table, gap>>
    /\ UNCHANGED outsideSplit

EvalFlightCollection ==
    /\ stage = "input"
    /\ out' = eval_flight_collection(Rows(table), gap)
    /\ stage' = "collection"
    /\ UNCHANGED <<table, gap>>
    /\ UNCHANGED outsideSplit

SplitNext == EvalFlight \/ EvalFlightCollection

SplitSpec == SplitInit /\ [][SplitNext]_vars

(***************************************************************************)
(* Properties of the splitter.                                             *)
(***************************************************************************)
\* out holds exactly the rows of the table, each once
SameRows ==
    /\ Len(out) = Len(table)
    /\ {out[i].id : i \in 1..Len(out)} = 1..Len(table)
    /\ \A i \in 1..Len(out) :
          out[i].key = table[out[i].id].key /\ out[i].t = table[out[i].id].t

SortedByTime == \A i \in 1..(Len(out) - 1) : out[i].t <= out[i + 1].t

SortedByKeyTime ==
    \A i \in 1..(Len(out) - 1) :
        \/ KeyRank(out[i].key) < KeyRank(out[i + 1].key)
        \/ out[i].key = out[i + 1].key /\ out[i].t <= out[i + 1].t

\* a later row starts a new segment iff its difference to the row before exceeds gap
SplitsExactlyAtGaps ==
    \A i \in 2..Len(out) :
        /\ out[i].split # out[i - 1].split <=> out[i].t - out[i - 1].t > gap
        /\ out[i].split \in {out[i - 1].split, out[i - 1].split + 1}

SegmentIds == {out[i].split : i \in 1..Len(out)}

DenseFromZero == SegmentIds = 0..(Cardinality(SegmentIds) - 1)

NonDecreasingIds == \A i \in 1..(Len(out) - 1) : out[i].split <= out[i + 1].split

\* C1: in the result of the single-Trajectory split the rows are in
\* time order, the first row is in segment 0, and a later row starts a new
\* segment iff its time difference to the preceding row is > gap.
C1_SingleSplit ==
    stage = "flight" =>
        /\ SameRows
        /\ SortedByTime
        /\ (Len(out) >= 1 => out[1].split = 0)
        /\ SplitsExactlyAtGaps

\* times 0, 1, 3 (stored in another order) with gap 1: the difference equal
\* to the gap does not split, the difference above it does
C1_Witness ==
    /\ stage = "flight"
    /\ gap = 1
    /\ to_series(table) # to_series(out)
    /\ to_series(out) = <<0, 1, 3>>
    /\ [i \in 1..Len(out) |-> out[i].split] = <<0, 0, 1>>

\* C2: in the result of the collection split two rows with different group
\* keys never share a segment id, whatever the gap and whatever the time
\* difference at the group boundary.
C2_NoMergeAcrossGroups ==
    stage = "collection" =>
        \A i, j \in 1..Len(out) : out[i].key # out[j].key => out[i].split # out[j].split

\* group A at {0, 1} and group B at {2} with gap 1: B starts within the gap
\* of A's last row, and still there are two segments, one per group
C2_Witness ==
    /\ stage = "collection"
    /\ gap = 1
    /\ [i \in 1..Len(out) |-> <<out[i].key, out[i].t>>]
         = <<(<<"A", 0>>), (<<"A", 1>>), (<<"B", 2>>)>>
    /\ [i \in 1..Len(out) |-> out[i].split] = <<0, 0, 1>>

\* the rows of group k as a Flight of its own
GroupRows(k) == SelectSeq(Rows(table), LAMBDA r : r.key = k)

\* the number of consecutive time differences > gap inside group k
GroupCrossings(k) ==
    LET data == sort_index_multi(GroupRows(k))
    IN Cardinality({i \in 2..Len(data) : data[i].t - data[i - 1].t > gap})

SplitOfRow(id) == out[CHOOSE i \in 1..Len(out) : out[i].id = id].split

\* C3: the collection split partitions the rows as the single-Trajectory split
\* run on each group alone does (for every order that split may give to rows
\* with equal times), and the number of segments is the sum over the groups of
\* 1 + the number of within-group differences > gap.
C3_PartitionAsPerGroupSplit ==
    stage = "collection" =>
        /\ SameRows
        /\ \A k \in Keys : \A single \in eval_flight(GroupRows(k), gap) :
              \A i, j \in 1..Len(single) :
                  single[i].split = single[j].split
                      <=> SplitOfRow(single[i].id) = SplitOfRow(single[j].id)
        /\ Cardinality(SegmentIds)
             = Cardinality({<<k, c>> \in Keys \X (0..MaxRows) :
                               GroupRows(k) # <<>> /\ c <= GroupCrossings(k)})

\* a group split inside, and a group boundary whose difference is below the gap
C3_Witness ==
    /\ stage = "collection"
    /\ \E i \in 2..Len(out) :
          out[i].key = out[i - 1].key /\ out[i].t - out[i - 1].t > gap
    /\ \E i \in 2..Len(out) :
          out[i].key # out[i - 1].key /\ out[i].t - out[i - 1].t <= gap

\* C4: the segment ids are the integers 0..max, each used, and do
\* not decrease along the sorted rows: time order for a single Trajectory,
\* (group key, time) order for a collection.
C4_DenseIds ==
    /\ stage = "flight" => SortedByTime /\ DenseFromZero /\ NonDecreasingIds
    /\ stage = "collection" => SortedByKeyTime /\ DenseFromZero /\ NonDecreasingIds

\* a collection result with two segments in one group, one of them of two rows
C4_Witness ==
    /\ stage = "collection"
    /\ SegmentIds = {0, 1}
    /\ to_series(table) # to_series(out)
    /\ \E i \in 2..Len(out) : out[i].split = out[i - 1].split

(***************************************************************************)
(* The column the splitter writes (splitter.py).                           *)
(*                                                                         *)
(* Here a row carries its columns by name: cols maps each column label to  *)
(* the value of the row.  The group key column "key" holds the rank of the *)
(* key, a column of extra holds -1 in every row, a value no segment id     *)
(* has.                                                                    *)
(***************************************************************************)
\* the names split_column_name is given: the default, another name, and the
\* name of the group key column
SplitColumnNames == {"split", "seg", "key"}

\* the labels of the columns the input may have besides the group key
ExtraNames == {"split", "seg"}

\* the input frame with its columns by name
input_frame(tbl, more) ==
    [i \in 1..Len(tbl) |->
        [id |-> i, t |-> tbl[i].t,
         cols |-> [c \in {"key"} \cup more |->
                      IF c = "key" THEN KeyRank(tbl[i].key) ELSE -1]]]

\* mutant: a column that is there already is left as it is
setitem_keeping(data, name, values) ==
    [i \in 1..Len(data) |->
        LET old == data[i].cols
        IN [id |-> data[i].id, t |-> data[i].t,
            cols |-> [c \in DOMAIN old \cup {name} |->
                         IF c \in DOMAIN old THEN old[c] ELSE values[i]]]]

\* data[name] = values: the column is added, or its values are replaced
setitem(data, name, values) ==
    [i \in 1..Len(data) |->
        LET old == data[i].cols
        IN [id |-> data[i].id, t |-> data[i].t,
            cols |-> [c \in DOMAIN old \cup {name} |->
                         IF c = name THEN values[i] ELSE old[c]]]]

\* the frame behind the collection a split returns: the rows of the input in
\* the order the split laid them out, the ids written to the column name
write_split(tbl, more, name, splitted) ==
    LET data == input_frame(tbl, more)
    IN setitem([i \in 1..Len(splitted) |-> data[splitted[i].id]], name,
               [i \in 1..Len(splitted) |-> splitted[i].split])

\* the tables of this part: every index value is the earliest or the latest
ColumnTables == UNION {[1..n -> [key : Keys, t : {0, MaxTime}]] : n \in 0..MaxRows}

SplitColumnInit ==
    /\ table \in ColumnTables
    /\ gap \in Gaps
    /\ split_column_name \in SplitColumnNames
    /\ extra \in SUBSET ExtraNames
    /\ stage = "input"
    /\ out = <<>>
    /\ RoleIdle /\ PipeIdle /\ PathIdle /\ ChainIdle /\ FillIdle /\ ResampleIdle /\ OrderIdle /\ RegroupIdle /\ SourceIdle

\* TimeGapSplitter(flight, gap, split_column_name).eval()
EvalFlightColumns ==
    /\ stage = "input"
    /\ \E splitted \in eval_flight(Rows(table), gap) :
          out' = write_split(table, extra, split_column_name, splitted)
    /\ stage' = "flight"
    /\ UNCHANGED <<table, gap, outsideSplit>>

\* TimeGapSplitter(fc, gap, split_column_name).eval(), fc grouped by "key"
EvalFlightCollectionColumns ==
    /\ stage = "input"
    /\ out' = write_split(table, extra, split_column_name,
                          eval_flight_collection(Rows(table), gap))
    /\ stage' = "collection"
    /\ UNCHANGED <<table, gap, outsideSplit>>

SplitColumnNext == EvalFlightColumns \/ EvalFlightCollectionColumns

SplitColumnSpec == SplitColumnInit /\ [][SplitColumnNext]_vars

\* the gap crossings among the index values S up to t: the values of S, not
\* after t, that lie more than the gap after the value of S before them
CrossingsUpTo(S, t) ==
    Cardinality({u \in S :
        /\ u <= t
        /\ \E v \in S : /\ v < u
                        /\ \A w \in S : w < u => w <= v
                        /\ u - v > gap})

\* the index values of the rows of the table with group key k
TimesOfKey(k) == {table[i].t : i \in {j \in 1..Len(table) : table[j].key = k}}

\* the number of segments of the groups whose key sorts before rank r
RECURSIVE SegmentsBefore(_)
SegmentsBefore(r) ==
    IF r = 1 THEN 0
    ELSE LET S == TimesOfKey(KeyOrder[r - 1])
         IN SegmentsBefore(r - 1) +
            (IF S = {} THEN 0
             ELSE 1 + CrossingsUpTo(S, CHOOSE t \in S : \A u \in S : u <= t))

\* the segment id of the row at position k of the table: for a Flight the gap
\* crossings up to the row; for a collection those within the group of the
\* row, counted on from the segments of the groups before it
SegmentIdOf(k) ==
    IF stage = "flight"
    THEN CrossingsUpTo({table[i].t : i \in 1..Len(table)}, table[k].t)
    ELSE SegmentsBefore(KeyRank(table[k].key))
         + CrossingsUpTo(TimesOfKey(table[k].key), table[k].t)

\* C14: in the frame either split returns, every row of the input is
\* there once, it has a column of the configured name ("split" by default) and
\* that column holds the row's segment id, whether or not the input had a
\* column of that name; the other columns are those of the input, unchanged.
C14_SplitColumnWritten ==
    stage \in {"flight", "collection"} =>
        /\ Len(out) = Len(table)
        /\ \A k \in 1..Len(table) : \E i \in 1..Len(out) : out[i].id = k
        /\ \A i \in 1..Len(out) :
              LET before == input_frame(table, extra)[out[i].id].cols
                  after == out[i].cols
              IN /\ DOMAIN after = DOMAIN before \cup {split_column_name}
                 /\ after[split_column_name] = SegmentIdOf(out[i].id)
                 /\ \A c \in DOMAIN before \ {split_column_name} : after[c] = before[c]

\* the default name, an input that has a "split" column already, and a
\* collection split that made two segments: the column holds 0 and 1
C14_Witness ==
    /\ stage = "collection"
    /\ split_column_name = "split"
    /\ "split" \in extra
    /\ \E i \in 1..Len(out) : out[i].cols["split"] = 0
    /\ \E i \in 1..Len(out) : out[i].cols["split"] = 1

(***************************************************************************)
(* Flight: column labels and role bindings (flight.py, base.py).           *)
(*                                                                         *)
(* An object is a record: kind is its class, columns gives for each label  *)
(* how many columns carry it, attrs holds the four _<role>_column_name     *)
(* attributes, geometry tells where the values of the geometry column come *)
(* from.  Rows play no part in the role bindings and are left out.         *)
(***************************************************************************)
None == "None"

\* the column labels that tables of the model may carry
Names == {"lat", "lon", "alt", "altitude"}

Columns == Names \cup {"geometry"}

\* labels a frame carries at most once: the geometry column and the labels
\* Flight(...) reads coordinates from; the others at most MaxDup times
SingleLabels == {"geometry", "lat", "lon"}

MaxCount(c) == IF c \in SingleLabels THEN 1 ELSE MaxDup

_possible_column_names ==
    [latitude |-> <<"lat", "latitude">>,
     longitude |-> <<"lon", "long", "longitude">>,
     altitude |-> <<"alt", "altitude", "baroaltitude", "geoaltitude", "baroalt", "geoalt">>,
     altitude_rate |-> <<"vertrate", "alt_rate", "baroalt_rate", "geoalt_rate">>,
     velocity |-> <<"velocity", "groundspeed", "spd", "gs", "speed">>,
     heading |-> <<"heading", "track", "hdg", "trk">>]

RoleNames == DOMAIN _possible_column_names

\* FlightPandasBase._metadata, each _<role>_column_name written as <role>
_metadata == <<"altitude", "altitude_rate", "velocity", "heading">>

OptionalRoles == {_metadata[i] : i \in 1..Len(_metadata)}

\* the class hierarchy: Flight < GeoDataFrame < DataFrame; a dict is no table;
\* the helper classes, and the classes of what a pipeline can return
Bases ==
    [Flight |-> {"Flight", "GeoDataFrame", "DataFrame"},
     GeoDataFrame |-> {"GeoDataFrame", "DataFrame"},
     DataFrame |-> {"DataFrame"},
     dict |-> {"dict"},
     FlightCollection |-> {"FlightCollection"},
     HelperBase |-> {"HelperBase"},
     TimeGapSplitter |-> {"TimeGapSplitter", "HelperBase"},
     RDP |-> {"RDP", "HelperBase"},
     Series |-> {"Series"},
     LineString |-> {"LineString"},
     NoneType |-> {"NoneType"}]

isinstance(data, cls) == cls \in Bases[data.kind]

NoColumns == [c \in Columns |-> 0]

\* the class attributes of FlightPandasBase: every role unbound
NoAttrs == [n \in OptionalRoles |-> None]

Object(kind, columns, attrs, geometry) ==
    [kind |-> kind, columns |-> columns, attrs |-> attrs, geometry |-> geometry]

\* the outcome of a call: a returned value or a raised exception
Return(v) == [exc |-> None, value |-> v]

Raise(e) == [exc |-> e, value |-> None]

\* (self.columns == label).sum()
count(columns, label) == IF label \in DOMAIN columns THEN columns[label] ELSE 0

\* label in data.columns
in_columns(data, label) == count(data.columns, label) > 0

\* hasattr(data, f"_{name}_column_name")
has_attr(data, name) == isinstance(data, "Flight") /\ name \in OptionalRoles

\* the loop over _possible_column_names[name]: the first candidate that is a
\* column of data, None when the loop ends without a return
scan_possible_names(data, name) ==
    LET names == _possible_column_names[name]
        found == {i \in 1..Len(names) : in_columns(data, names[i])}
    IN IF found = {} THEN None
       ELSE names[CHOOSE i \in found : \A j \in found : i <= j]

\* mutant: a name that is no column gives unbound even when required
check_attr_never_raising(data, attr, required) ==
    IF ~in_columns(data, attr) THEN Return(None) ELSE Return(attr)

\* the tail of _validate_attr: attr is returned only if it is a column
check_attr(data, attr, required) ==
    IF ~in_columns(data, attr)
    THEN IF required THEN Raise("ValueError") ELSE Return(None)
    ELSE Return(attr)

\* mutant: the synonym scan tried before the override and the prior binding
_validate_attr_scan_first(data, name, override, required) ==
    LET attr == IF has_attr(data, name) THEN data.attrs[name] ELSE None
        scanned == scan_possible_names(data, name)
    IN IF scanned # None THEN Return(scanned)
       ELSE IF override # None THEN check_attr(data, override, required)
       ELSE check_attr(data, attr, required)

_validate_attr(data, name, override, required) ==
    LET attr == IF has_attr(data, name) THEN data.attrs[name] ELSE None
        scanned == scan_possible_names(data, name)
    IN IF override # None THEN check_attr(data, override, required)
       ELSE IF attr = None /\ scanned # None THEN Return(scanned)
       ELSE check_attr(data, attr, required)

\* mutant: lat and lon left in place beside the new geometry column
drop_and_set_geometry_keeping(columns, lon, lat) ==
    [c \in Columns |-> IF c = "geometry" THEN 1 ELSE columns[c]]

\* data.drop(columns=[lon, lat]) followed by GeoDataFrame(..., geometry=...)
drop_and_set_geometry(columns, lon, lat) ==
    [c \in Columns |->
        IF c = "geometry" THEN 1
        ELSE IF c \in {lon, lat} THEN 0
        ELSE columns[c]]

\* mutant: the source's bindings taken over as they are, arguments ignored
init_from_flight_copying(data, a) ==
    Return(Object("Flight", data.columns, data.attrs, data.geometry))

\* the branch of Flight.__init__ for a Flight: each role is resolved with the
\* argument, or else the source's binding, as the override
init_from_flight(data, a) ==
    LET own(n) == IF a[n] = None THEN data.attrs[n] ELSE a[n]
        opt(n) == _validate_attr(data, n, own(n), FALSE).value
    IN Return(Object("Flight", data.columns,
                     [n \in OptionalRoles |-> opt(n)], data.geometry))

\* the branch for a DataFrame: latitude and longitude are required, and
\* their columns are turned into the geometry column
init_from_dataframe(data, a) ==
    LET lat == _validate_attr(data, "latitude", a["latitude"], TRUE)
        lon == _validate_attr(data, "longitude", a["longitude"], TRUE)
        opt(n) == _validate_attr(data, n, a[n], FALSE).value
    IN IF lat.exc # None THEN Raise(lat.exc)
       ELSE IF lon.exc # None THEN Raise(lon.exc)
       ELSE Return(Object("Flight",
                          drop_and_set_geometry(data.columns, lon.value, lat.value),
                          [n \in OptionalRoles |-> opt(n)],
                          <<"points_from_xy", lon.value, lat.value>>))

\* the branch for a GeoDataFrame: the table is taken as it is
init_from_geodataframe(data, a) ==
    LET opt(n) == _validate_attr(data, n, a[n], FALSE).value
    IN Return(Object("Flight", data.columns,
                     [n \in OptionalRoles |-> opt(n)], data.geometry))

\* Flight.__init__(data, lat=, lon=, alt=, alt_rate=, velocity=, heading=):
\* a gives the argument of each role, None when it is left out. The branches
\* are tried in the order of the if/elif chain.
Flight__init__(data, a) ==
    IF isinstance(data, "Flight") THEN init_from_flight(data, a)
    ELSE IF isinstance(data, "DataFrame") THEN init_from_dataframe(data, a)
    ELSE IF isinstance(data, "GeoDataFrame") THEN init_from_geodataframe(data, a)
    ELSE Raise("ValueError")

\* no role argument given
NoArgs == [n \in RoleNames |-> None]

\* _flight_constructor_with_fallback(df): Flight(df), or the DataFrame itself
\* when Flight(df) raises ValueError
_flight_constructor_with_fallback(df) ==
    LET r == Flight__init__(df, NoArgs)
    IN IF r.exc = None THEN r.value ELSE df

\* mutant: the bindings of other copied and none of them cleared
__finalize__without_check(self, other) ==
    [self EXCEPT !.attrs = other.attrs]

\* Flight.__finalize__(self, other): the bindings of other are copied, and
\* each is cleared unless its label occurs exactly once among self's columns
__finalize__(self, other) ==
    [self EXCEPT !.attrs =
        [n \in OptionalRoles |->
            IF count(self.columns, other.attrs[n]) # 1 THEN None ELSE other.attrs[n]]]

\* Flight._constructor_from_mgr for a block manager with these columns, taken
\* from self: a plain table goes through the fallback constructor
_constructor_from_mgr(self, columns) ==
    IF columns["geometry"] = 0
    THEN _flight_constructor_with_fallback(Object("DataFrame", columns, NoAttrs, <<>>))
    ELSE Object("Flight", columns, NoAttrs, self.geometry)

\* what a pandas operation on the Flight self returns when its result has
\* these columns: the constructed object, finalized from self if a Flight
derived(self, columns) ==
    LET result == _constructor_from_mgr(self, columns)
    IN IF isinstance(result, "Flight") THEN __finalize__(result, self) ELSE result

\* self[name] for a label: the column(s) of that label, KeyError if none
getitem_label(self, name) ==
    IF ~in_columns(self, name) THEN Raise("KeyError")
    ELSE Return(<<"columns", name, count(self.columns, name)>>)

\* the four accessors share one body
get_role(self, name) ==
    IF self.attrs[name] = None THEN Raise("ValueError")
    ELSE getitem_label(self, self.attrs[name])

get_altitude(self) == get_role(self, "altitude")

get_altitude_rate(self) == get_role(self, "altitude_rate")

get_velocity(self) == get_role(self, "velocity")

get_heading(self) == get_role(self, "heading")

accessor(self, name) ==
    CASE name = "altitude" -> get_altitude(self)
      [] name = "altitude_rate" -> get_altitude_rate(self)
      [] name = "velocity" -> get_velocity(self)
      [] name = "heading" -> get_heading(self)

(***************************************************************************)
(* RoleSpec: a raw input, then any sequence of Flight(...) calls, derived- *)
(* frame operations on the Flight at hand, accessor calls and direct calls *)
(* of _validate_attr.  A call that raises leaves the object at hand.       *)
(***************************************************************************)
\* raw inputs: a table with distinct labels, with or without a geometry
\* column, or something that is no table
RawInputs ==
    {Object("DataFrame", [c \in Columns |-> IF c \in S THEN 1 ELSE 0], NoAttrs, <<>>) :
        S \in SUBSET Names}
    \cup
    {Object("GeoDataFrame", [c \in Columns |-> IF c \in S \cup {"geometry"} THEN 1 ELSE 0],
            NoAttrs, <<"given">>) : S \in SUBSET Names}
    \cup
    {Object("dict", NoColumns, NoAttrs, <<>>)}

\* the sets of roles given an argument in one Flight(...) call: none, any
\* one role, or latitude and longitude together
ArgRoleSets == {{}} \cup {{n} : n \in RoleNames} \cup {{"latitude", "longitude"}}

\* the role arguments of one Flight(...) call
InitArgs ==
    UNION {{[n \in RoleNames |-> IF n \in R THEN f[n] ELSE None] : f \in [R -> Names]} :
             R \in ArgRoleSets}

\* the column lists self[[...]] may be given: labels of self, each at most
\* MaxDup times, written as the number of times each label is listed
KeyLists(self) ==
    {k \in [Columns -> 0..MaxDup] :
        /\ \E c \in Columns : k[c] > 0
        /\ \A c \in Columns : k[c] > 0 => self.columns[c] > 0
        /\ \A c \in Columns : k[c] * self.columns[c] <= MaxCount(c)}

\* a further call is made while the last one returned the object at hand. A
\* call that raised, an accessor and _validate_attr leave the object at hand as
\* it was, so that what could follow them already follows the call before.
CanCall ==
    /\ ncalls < MaxCalls
    /\ call.op \notin {"accessor", "_validate_attr"}
    /\ call.exc = None

RoleInit ==
    /\ frame \in RawInputs
    /\ src = frame
    /\ call = [op |-> "none", exc |-> None]
    /\ ncalls = 0
    /\ SplitIdle /\ ColIdle /\ PipeIdle /\ PathIdle /\ ChainIdle /\ FillIdle /\ ResampleIdle /\ OrderIdle /\ RegroupIdle /\ SourceIdle

\* Flight(frame, **a)
FlightInit ==
    /\ CanCall
    /\ \E a \in InitArgs :
          LET r == Flight__init__(frame, a)
          IN /\ call' = [op |-> "Flight", args |-> a, exc |-> r.exc]
             /\ frame' = IF r.exc = None THEN r.value ELSE frame
    /\ src' = frame
    /\ ncalls' = ncalls + 1
    /\ UNCHANGED outsideRole

\* frame[[...]]: each listed label selects every column that carries it
Getitem ==
    /\ CanCall
    /\ isinstance(frame, "Flight")
    /\ \E k \in KeyLists(frame) :
          /\ call' = [op |-> "getitem", key |-> k, exc |-> None]
          /\ frame' = derived(frame, [c \in Columns |-> k[c] * frame.columns[c]])
    /\ src' = frame
    /\ ncalls' = ncalls + 1
    /\ UNCHANGED outsideRole

\* frame.drop(columns=[label])
Drop ==
    /\ CanCall
    /\ isinstance(frame, "Flight")
    /\ \E d \in Columns :
          /\ frame.columns[d] > 0
          /\ call' = [op |-> "drop", label |-> d, exc |-> None]
          /\ frame' = derived(frame, [frame.columns EXCEPT ![d] = 0])
    /\ src' = frame
    /\ ncalls' = ncalls + 1
    /\ UNCHANGED outsideRole

\* frame.rename(columns={old: new}), the geometry column left alone
Rename ==
    /\ CanCall
    /\ isinstance(frame, "Flight")
    /\ \E old \in Names, new \in Names :
          /\ old # new
          /\ frame.columns[old] > 0
          /\ frame.columns[old] + frame.columns[new] <= MaxCount(new)
          /\ call' = [op |-> "rename", old |-> old, new |-> new, exc |-> None]
          /\ frame' = derived(frame, [frame.columns EXCEPT
                                         ![new] = frame.columns[old] + frame.columns[new],
                                         ![old] = 0])
    /\ src' = frame
    /\ ncalls' = ncalls + 1
    /\ UNCHANGED outsideRole

\* frame[mask], frame.iloc[...], frame.copy(): a row selection, same columns
FilterRows ==
    /\ CanCall
    /\ isinstance(frame, "Flight")
    /\ call' = [op |-> "filter", exc |-> None]
    /\ frame' = derived(frame, frame.columns)
    /\ src' = frame
    /\ ncalls' = ncalls + 1
    /\ UNCHANGED outsideRole

\* frame.get_altitude() and the other three accessors
Accessor ==
    /\ CanCall
    /\ isinstance(frame, "Flight")
    /\ \E n \in OptionalRoles :
          LET r == accessor(frame, n)
          IN call' = [op |-> "accessor", name |-> n, exc |-> r.exc, value |-> r.value]
    /\ src' = frame
    /\ ncalls' = ncalls + 1
    /\ UNCHANGED <<frame, outsideRole>>

\* _validate_attr(frame, name, override, required) called by itself
ValidateAttr ==
    /\ CanCall
    /\ frame.kind # "dict"
    /\ \E n \in RoleNames, o \in Names \cup {None}, req \in BOOLEAN :
          LET r == _validate_attr(frame, n, o, req)
          IN call' = [op |-> "_validate_attr", name |-> n, override |-> o,
                      required |-> req, exc |-> r.exc, value |-> r.value]
    /\ src' = frame
    /\ ncalls' = ncalls + 1
    /\ UNCHANGED <<frame, outsideRole>>

RoleNext ==
    \/ FlightInit
    \/ Getitem
    \/ Drop
    \/ Rename
    \/ FilterRows
    \/ Accessor

RoleSpec == RoleInit /\ [][RoleNext]_vars

(***************************************************************************)
(* ResolveSpec: _validate_attr called by itself on a raw input or on a     *)
(* Flight built from one.                                                  *)
(***************************************************************************)
ResolveNext == FlightInit \/ ValidateAttr

ResolveSpec == RoleInit /\ [][ResolveNext]_vars

(***************************************************************************)
(* Properties of the role bindings.                                        *)
(***************************************************************************)
\* the first of the role's candidate names that is a column of data: the
\* candidate present with every candidate before it in the list absent
FirstCandidate(data, name) ==
    LET names == _possible_column_names[name]
        hits == {i \in 1..Len(names) :
                    /\ count(data.columns, names[i]) > 0
                    /\ \A j \in 1..(i - 1) : count(data.columns, names[j]) = 0}
    IN IF hits = {} THEN None ELSE names[CHOOSE i \in hits : TRUE]

\* label if it is a column of data, unbound otherwise
IfColumn(data, label) == IF count(data.columns, label) > 0 THEN label ELSE None

DerivedOps == {"getitem", "drop", "rename", "filter"}

\* C5: each of the four optional role bindings of a Flight, however
\* the Flight was made, is unbound or names a label that exactly one column
\* of that Flight carries; and a derived-frame operation keeps a binding whose
\* label is still carried by exactly one column and clears any other.
C5_BindingsNameOneColumn ==
    isinstance(frame, "Flight") =>
        /\ \A n \in OptionalRoles :
              frame.attrs[n] = None \/ count(frame.columns, frame.attrs[n]) = 1
        /\ (call.op \in DerivedOps /\ isinstance(src, "Flight")) =>
              \A n \in OptionalRoles :
                  frame.attrs[n] = IF count(frame.columns, src.attrs[n]) = 1
                                   THEN src.attrs[n] ELSE None

Resolves(data, name, a) ==
    IF a[name] # None THEN count(data.columns, a[name]) > 0
    ELSE FirstCandidate(data, name) # None

ResolvedName(data, name, a) ==
    IF a[name] # None THEN a[name] ELSE FirstCandidate(data, name)

\* C7: Flight(...) on a plain DataFrame raises ValueError exactly when
\* latitude or longitude does not resolve (no argument naming a column and,
\* without an argument, no candidate name among the columns); otherwise it
\* returns a Flight in which the two resolved labels are no columns any more,
\* the other columns are as before, and there is one geometry column.
C7_RawConstruction ==
    (call.op = "Flight" /\ src.kind = "DataFrame") =>
        LET ok == Resolves(src, "latitude", call.args) /\ Resolves(src, "longitude", call.args)
            lat == ResolvedName(src, "latitude", call.args)
            lon == ResolvedName(src, "longitude", call.args)
        IN /\ call.exc = "ValueError" <=> ~ok
           /\ call.exc = None <=> ok
           /\ ~ok => frame = src
           /\ ok => /\ frame.kind = "Flight"
                    /\ frame.columns[lat] = 0
                    /\ frame.columns[lon] = 0
                    /\ frame.columns["geometry"] = 1
                    /\ \A c \in Names \ {lat, lon} : frame.columns[c] = src.columns[c]
                    /\ frame.geometry = <<"points_from_xy", lon, lat>>

\* both given explicitly, as lat="lat", lon="lon", on a table that has more
\* columns: the Flight has neither of the two and has a geometry column
C7_Witness ==
    /\ call.op = "Flight"
    /\ src.kind = "DataFrame"
    /\ call.args["latitude"] = "lat"
    /\ call.args["longitude"] = "lon"
    /\ src.columns["lat"] = 1 /\ src.columns["lon"] = 1 /\ src.columns["alt"] = 1
    /\ call.exc = None
    /\ frame.kind = "Flight"
    /\ frame.columns = [c \in Columns |-> IF c \in {"alt", "geometry"} THEN 1 ELSE 0]

\* C8: Flight(...) on a GeoDataFrame that is no Flight never raises,
\* whether or not the table has latitude/longitude columns; the result is a
\* Flight with the columns and the geometry of the table, and each optional
\* role is bound to its argument or first candidate name if that is a column.
C8_GeometricTableTakenAsIs ==
    (call.op = "Flight" /\ src.kind = "GeoDataFrame") =>
        /\ call.exc = None
        /\ frame.kind = "Flight"
        /\ frame.columns = src.columns
        /\ frame.geometry = src.geometry
        /\ \A n \in OptionalRoles :
              frame.attrs[n] = IF call.args[n] # None THEN IfColumn(src, call.args[n])
                               ELSE FirstCandidate(src, n)

\* every binding of the object names a label that one column carries
WellBound(data) ==
    \A n \in OptionalRoles :
        data.attrs[n] = None \/ count(data.columns, data.attrs[n]) = 1

PriorBinding(data, name) ==
    IF data.kind = "Flight" /\ name \in OptionalRoles THEN data.attrs[name] ELSE None

\* C10: _validate_attr returns, when it returns a name: the
\* override if one is given, whatever the prior binding and the candidate
\* names present; without an override the prior binding of the object, whatever
\* candidate names are present; with neither, the first of the role's candidate
\* names, in list order, that is a column. With an override or a prior binding
\* it returns no other name than that one.
C10_ResolverPrecedence ==
    call.op = "_validate_attr" =>
        LET prior == PriorBinding(src, call.name)
            chosen == IF call.override # None THEN call.override
                      ELSE IF prior # None THEN prior
                      ELSE FirstCandidate(src, call.name)
        IN /\ call.value \in {chosen, None}
           /\ call.value = chosen <=> IfColumn(src, chosen) = chosen
           /\ call.exc # None => call.value = None

\* a Flight whose altitude was bound to "altitude" by an argument, with "alt"
\* a column too: without an override the prior binding is returned, not "alt"
C10_Witness ==
    /\ call.op = "_validate_attr"
    /\ src.kind = "Flight"
    /\ src.attrs["altitude"] = "altitude"
    /\ src.columns["alt"] = 1 /\ src.columns["altitude"] = 1
    /\ call.name = "altitude"
    /\ call.override = None
    /\ call.value = "altitude"

\* C11: when _validate_attr has no name to go by (no override, no prior
\* binding, no candidate name among the columns), or the name it goes by (the
\* override, else the prior binding) is no column of the table, it raises
\* ValueError if required and returns None if not; a name it returns is always
\* a column of the table; and an override that is no column is not replaced
\* by a candidate name that is one.
C11_ResolverFailure ==
    call.op = "_validate_attr" =>
        LET prior == PriorBinding(src, call.name)
            chosen == IF call.override # None THEN call.override
                      ELSE IF prior # None THEN prior
                      ELSE FirstCandidate(src, call.name)
            failed == chosen = None \/ count(src.columns, chosen) = 0
        IN /\ (failed /\ call.required) => (call.exc = "ValueError" /\ call.value = None)
           /\ (failed /\ ~call.required) => (call.exc = None /\ call.value = None)
           /\ ~failed => (call.exc = None /\ call.value = chosen)
           /\ call.value # None => count(src.columns, call.value) > 0
           /\ (call.override # None /\ count(src.columns, call.override) = 0) =>
                 call.value = None

\* latitude is required with the override "altitude", which is no column of
\* the raw table, while the candidate name "lat" is one: ValueError
C11_Witness ==
    /\ call.op = "_validate_attr"
    /\ src.kind = "DataFrame"
    /\ call.name = "latitude"
    /\ call.override = "altitude"
    /\ call.required
    /\ src.columns["altitude"] = 0
    /\ src.columns["lat"] = 1
    /\ call.exc = "ValueError"
    /\ call.value = None

\* C12: a call of one of the four accessors on a Flight, in whatever
\* state the Flight is, has one of two outcomes: it returns the one column the
\* role is bound to, or it raises ValueError, and it raises ValueError exactly
\* when the role is unbound; it returns no None.
C12_AccessorReturnsColumnOrValueError ==
    call.op = "accessor" =>
        LET bound == src.attrs[call.name]
        IN /\ \/ call.exc = "ValueError" /\ call.value = None
              \/ call.exc = None /\ call.value = <<"columns", bound, 1>>
           /\ call.exc = "ValueError" <=> bound = None
           /\ call.exc = None => call.value # None

(***************************************************************************)
(* Helper pipelines (helper_base.py, splitter.py, simplifier.py).          *)
(*                                                                         *)
(* The object a pipeline is built on is a record: kind is its class,       *)
(* datetime tells whether its row index (for a collection: the index of    *)
(* the backing Flight) has a datetime64 dtype, short tells whether it has  *)
(* fewer than 2 rows (for a collection: every group has).  A stage is a    *)
(* record of its class and its own attributes.  The helper at hand is the  *)
(* last stage of pipes; its data is obj.                                   *)
(***************************************************************************)
MaxStages == 3      \* stages in one pipeline

Data(kind, datetime, short) == [kind |-> kind, datetime |-> datetime, short |-> short]

\* a helper: a stage together with the pipes and the data it carries
Helper(stages, data) ==
    [kind |-> stages[Len(stages)].kind, pipes |-> stages, data |-> data]

\* is_datetime64_any_dtype(index)
is_datetime64_any_dtype(data) == data.datetime

\* mutant: the index of the object is not looked at
_validate_datetime_index_unchecked(target) == Return(FALSE)

\* _validate_datetime_index(obj): ValueError for a Flight or a
\* FlightCollection without a datetime64 index, False for anything else
_validate_datetime_index(target) ==
    IF isinstance(target, "Flight")
    THEN IF ~is_datetime64_any_dtype(target) THEN Raise("ValueError") ELSE Return(FALSE)
    ELSE IF isinstance(target, "FlightCollection")
    THEN IF ~is_datetime64_any_dtype(target) THEN Raise("ValueError") ELSE Return(FALSE)
    ELSE Return(FALSE)

\* HelperBase.__init__(self, obj) for the new stage self: the helper made, with
\* self appended to the pipes taken over, or ValueError
HelperBase__init__(self, target) ==
    IF isinstance(target, "HelperBase")
    THEN Return(Helper(Append(target.pipes, self), target.data))
    ELSE IF ~(isinstance(target, "Flight") \/ isinstance(target, "FlightCollection"))
    THEN Raise("ValueError")
    ELSE Return(Helper(<<self>>, target))

\* TimeGapSplitter.__init__(self, obj, gap, split_column_name)
TimeGapSplitter__init__(target) ==
    LET valid == _validate_datetime_index(target)
    IN IF valid.exc # None THEN Raise(valid.exc)
       ELSE HelperBase__init__([kind |-> "TimeGapSplitter"], target)

\* mutant: the availability of scipy is not looked at
RDP__init__unchecked(target, output_linestring, scipy) ==
    HelperBase__init__([kind |-> "RDP", output_linestring |-> output_linestring], target)

\* RDP.__init__(self, obj, tolerance, preserve_topology, output_linestring)
RDP__init__(target, output_linestring, scipy) ==
    IF ~scipy /\ output_linestring = FALSE THEN Raise("ImportError")
    ELSE HelperBase__init__([kind |-> "RDP", output_linestring |-> output_linestring], target)

\* the stage constructors a pipeline is extended with
StageCalls ==
    {[cls |-> "TimeGapSplitter"]} \cup
    {[cls |-> "RDP", output_linestring |-> b] : b \in BOOLEAN}

construct(c, target, scipy) ==
    IF c.cls = "TimeGapSplitter" THEN TimeGapSplitter__init__(target)
    ELSE RDP__init__(target, c.output_linestring, scipy)

\* HelperBase.pipe(self, func): func(self)
HelperBase_pipe(self, c, scipy) == construct(c, self, scipy)

\* mutant: a stage is added whatever the output of the RDP stage
RDP_pipe_unchecked(self, c, scipy) == construct(c, self, scipy)

\* RDP.pipe(self, func)
RDP_pipe(self, c, scipy) ==
    IF self.pipes[Len(self.pipes)].output_linestring THEN Raise("ValueError")
    ELSE HelperBase_pipe(self, c, scipy)

pipe(self, c, scipy) ==
    IF isinstance(self, "RDP") THEN RDP_pipe(self, c, scipy)
    ELSE HelperBase_pipe(self, c, scipy)

\* the outcome of a stage: <<v>> for the value v it returned, <<>> when it
\* raised
Returned(v) == [exc |-> None, value |-> <<v>>]

Raised(e) == [exc |-> e, value |-> <<>>]

\* TimeGapSplitter._eval_flight and _eval_flight_collection, as far as the
\* class of the result goes: a collection of segments. A long Flight may fall
\* into segments of one row each. On an index that is no datetime64 the
\* subtraction or the comparison with the gap may raise.
TimeGapSplitter_eval(data) ==
    {Returned(Data("FlightCollection", data.datetime, s)) :
        s \in IF data.short THEN {TRUE} ELSE BOOLEAN}
    \cup (IF data.datetime THEN {} ELSE {Raised("TypeError")})

\* RDP._eval_flight: the simplified LineString, None for a Flight of fewer
\* than 2 rows, or the rows of the Flight next to its vertices. The rows are
\* found with KDTree, a name that is not defined when scipy failed to import;
\* a Flight of fewer than 2 rows is returned before KDTree is used.
RDP_eval_flight(self, flight, scipy) ==
    IF self.output_linestring
    THEN {Returned(Data(IF flight.short THEN "NoneType" ELSE "LineString", FALSE, flight.short))}
    ELSE IF flight.short THEN {Returned(flight)}
    ELSE IF ~scipy THEN {Raised("NameError")}
    ELSE {Returned(flight)}

\* RDP._eval_flight_collection: fc.apply(self._eval_flight), grouped again by
\* the keys unless the output is geometry. When every group gives None the
\* result of apply is built by the constructor of the backing Flight, called
\* without arguments.
RDP_eval_flight_collection(self, fc, scipy) ==
    IF self.output_linestring
    THEN IF fc.short THEN {Returned(Data("DataFrame", FALSE, TRUE)), Raised("TypeError")}
         ELSE {Returned(Data("Series", FALSE, FALSE))}
    ELSE IF fc.short THEN {Returned(fc)}
    ELSE IF ~scipy THEN {Raised("NameError")}
    ELSE {Returned(fc)}

\* one turn of the loop of HelperBase.eval: the stage is applied to a Flight
\* or a FlightCollection, anything else is a ValueError
eval_pipe(self, data, scipy) ==
    IF isinstance(data, "Flight")
    THEN IF self.kind = "TimeGapSplitter" THEN TimeGapSplitter_eval(data)
         ELSE RDP_eval_flight(self, data, scipy)
    ELSE IF isinstance(data, "FlightCollection")
    THEN IF self.kind = "TimeGapSplitter" THEN TimeGapSplitter_eval(data)
         ELSE RDP_eval_flight_collection(self, data, scipy)
    ELSE {Raised("ValueError")}

\* the loop of HelperBase.eval from stage i on: the outcomes, each with the
\* stages that ran (those whose _eval_* was called) and what each was given,
\* and with the place an exception came from: a stage, or the loop itself
RECURSIVE eval_from(_, _, _, _, _)
eval_from(stages, i, data, ran, scipy) ==
    IF i > Len(stages)
    THEN {[exc |-> None, value |-> <<data>>, ran |-> ran, by |-> None]}
    ELSE UNION {IF r.exc # None
                THEN {IF isinstance(data, "Flight") \/ isinstance(data, "FlightCollection")
                      THEN [exc |-> r.exc, value |-> <<>>,
                            ran |-> Append(ran, data.kind), by |-> "stage"]
                      ELSE [exc |-> r.exc, value |-> <<>>, ran |-> ran, by |-> "eval"]}
                ELSE eval_from(stages, i + 1, r.value[1], Append(ran, data.kind), scipy) :
                r \in eval_pipe(stages[i], data, scipy)}

\* mutant: only the stage eval() is called on is applied
HelperBase_eval_own_stage(self, scipy) ==
    eval_from(<<self.pipes[Len(self.pipes)]>>, 1, self.data, <<>>, scipy)

\* HelperBase.eval(self)
HelperBase_eval(self, scipy) == eval_from(self.pipes, 1, self.data, <<>>, scipy)

(***************************************************************************)
(* PipeSpec: an object, then stages built on it one on another, directly   *)
(* or through pipe(), and evaluations of the helper at hand.               *)
(***************************************************************************)
PipeObjects ==
    {Data(k, d, s) : k \in {"Flight", "FlightCollection", "DataFrame"},
                     d \in BOOLEAN, s \in BOOLEAN}

\* what a stage is built on: the object, or the helper at hand if there is one
Target == IF pipes = <<>> THEN obj ELSE Helper(pipes, obj)

PipeInit ==
    /\ obj \in PipeObjects
    /\ pipes = <<>>
    /\ SCIPY_INSTALLED \in BOOLEAN
    /\ res = [op |-> "none", exc |-> None]
    /\ SplitIdle /\ RoleIdle /\ ColIdle /\ PathIdle /\ ChainIdle /\ FillIdle /\ ResampleIdle /\ OrderIdle /\ RegroupIdle /\ SourceIdle

\* TimeGapSplitter(target) or RDP(target, ...)
Construct ==
    /\ Len(pipes) < MaxStages
    /\ \E c \in StageCalls :
          LET r == construct(c, Target, SCIPY_INSTALLED)
          IN /\ res' = [op |-> "construct", stage |-> c, on |-> Target.kind, exc |-> r.exc]
             /\ pipes' = IF r.exc = None THEN r.value.pipes ELSE pipes
    /\ UNCHANGED <<obj, SCIPY_INSTALLED, outsidePipe>>

\* helper.pipe(TimeGapSplitter) or helper.pipe(RDP, ...)
Pipe ==
    /\ pipes # <<>>
    /\ Len(pipes) < MaxStages
    /\ \E c \in StageCalls :
          LET r == pipe(Target, c, SCIPY_INSTALLED)
          IN /\ res' = [op |-> "pipe", stage |-> c, on |-> Target.kind, exc |-> r.exc]
             /\ pipes' = IF r.exc = None THEN r.value.pipes ELSE pipes
    /\ UNCHANGED <<obj, SCIPY_INSTALLED, outsidePipe>>

\* helper.eval()
Eval ==
    /\ pipes # <<>>
    /\ \E r \in HelperBase_eval(Target, SCIPY_INSTALLED) :
          res' = [op |-> "eval", exc |-> r.exc, value |-> r.value, ran |-> r.ran,
                  by |-> r.by]
    /\ UNCHANGED <<obj, pipes, SCIPY_INSTALLED, outsidePipe>>

PipeNext == Construct \/ Pipe \/ Eval

PipeSpec == PipeInit /\ [][PipeNext]_vars

(***************************************************************************)
(* Properties of the pipelines.                                            *)
(***************************************************************************)
\* C13: TimeGapSplitter(...) called on a Flight or on a FlightCollection
\* itself raises ValueError when the index of the Flight, or of the Flight
\* behind the collection, is no datetime64 index, and then no stage has been
\* made: there is no helper to evaluate, so nothing is sorted, subtracted or
\* grouped. With a datetime64 index the call returns a helper of one stage.
C13_SplitterRejectsNonDatetime ==
    (/\ res.op = "construct"
     /\ res.stage.cls = "TimeGapSplitter"
     /\ res.on \in {"Flight", "FlightCollection"}) =>
        /\ ~obj.datetime => (res.exc = "ValueError" /\ pipes = <<>>)
        /\ obj.datetime => (res.exc = None /\ pipes = <<[kind |-> "TimeGapSplitter"]>>)

\* a FlightCollection whose backing Flight has, say, an integer index
C13_Witness ==
    /\ res.op = "construct"
    /\ res.stage.cls = "TimeGapSplitter"
    /\ res.on = "FlightCollection"
    /\ obj.kind = "FlightCollection"
    /\ ~obj.datetime
    /\ res.exc = "ValueError"
    /\ pipes = <<>>

\* a stage that returns geometry: RDP with output_linestring=True
GeometryOnly(st) == st.kind = "RDP" /\ st.output_linestring

\* the first geometry-only stage of the pipeline, 0 if there is none
FirstGeometryOnly ==
    LET at == {k \in 1..Len(pipes) : GeometryOnly(pipes[k])}
    IN IF at = {} THEN 0 ELSE CHOOSE k \in at : \A j \in at : k <= j

\* C15: pipe() called on an RDP stage with output_linestring=True raises
\* ValueError and adds no stage. When a stage was built directly on top of
\* such an RDP stage, eval() never returns: at most the stages up to the RDP
\* stage run, none after it, and when those stages themselves raise nothing the
\* loop of eval raises ValueError right after the RDP stage.
C15_NothingAfterGeometry ==
    /\ res.op = "pipe" =>
          LET on == IF res.exc = None THEN pipes[Len(pipes) - 1] ELSE pipes[Len(pipes)]
          IN GeometryOnly(on) => res.exc = "ValueError"
    /\ (res.op = "eval" /\ FirstGeometryOnly \in 1..(Len(pipes) - 1)) =>
          /\ res.exc # None
          /\ res.value = <<>>
          /\ Len(res.ran) <= FirstGeometryOnly
          /\ res.by \in {"stage", "eval"}
          /\ res.by = "eval" => (res.exc = "ValueError" /\ Len(res.ran) = FirstGeometryOnly)

\* a splitter built on top of a geometry-only RDP stage on a Flight: the RDP
\* stage runs, the splitter does not, eval raises ValueError
C15_Witness ==
    /\ res.op = "eval"
    /\ obj.kind = "Flight"
    /\ pipes = <<[kind |-> "RDP", output_linestring |-> TRUE], [kind |-> "TimeGapSplitter"]>>
    /\ res.ran = <<"Flight">>
    /\ res.exc = "ValueError"
    /\ res.by = "eval"

\* a stage that recovers rows: RDP with output_linestring=False
RowRecovery(st) == st.kind = "RDP" /\ ~st.output_linestring

\* C18: without scipy, RDP(..., output_linestring=False) raises
\* ImportError and makes no stage, so that no pipeline ever holds a
\* row-recovery stage and no evaluation fails for the lack of KDTree. With
\* output_linestring=True the construction on a Flight, a FlightCollection or
\* a helper succeeds without scipy, and the evaluation of that one stage
\* returns the LineString, None for a Flight of fewer than 2 rows, or for a
\* collection with a group of 2 rows or more the Series of the groups.
C18_RowRecoveryNeedsScipy ==
    ~SCIPY_INSTALLED =>
        /\ \A k \in 1..Len(pipes) : ~RowRecovery(pipes[k])
        /\ (res.op = "construct" /\ res.stage.cls = "RDP") =>
              /\ ~res.stage.output_linestring => res.exc = "ImportError"
              /\ (res.stage.output_linestring /\ res.on # "DataFrame") => res.exc = None
        /\ res.op = "eval" => res.exc \notin {"ImportError", "NameError"}
        /\ (res.op = "eval" /\ Len(pipes) = 1 /\ GeometryOnly(pipes[1])) =>
              /\ obj.kind = "Flight" =>
                    /\ res.exc = None
                    /\ res.value[1].kind = IF obj.short THEN "NoneType" ELSE "LineString"
              /\ (obj.kind = "FlightCollection" /\ ~obj.short) =>
                    /\ res.exc = None
                    /\ res.value[1].kind = "Series"

\* without scipy: the row-recovery construction on a Flight raised
\* ImportError and left no stage behind
C18_Witness ==
    /\ ~SCIPY_INSTALLED
    /\ res.op = "construct"
    /\ res.stage = [cls |-> "RDP", output_linestring |-> FALSE]
    /\ res.on = "Flight"
    /\ res.exc = "ImportError"
    /\ pipes = <<>>

(***************************************************************************)
(* Path geometry and simplification (flight.py, flight_collection.py,      *)
(* simplifier.py).                                                         *)
(*                                                                         *)
(* A Flight is the sequence of its rows in stored order; a row has a group *)
(* key and a position p = <<x, y>>, and is known by its place in the       *)
(* sequence.  A geometry value is a record: a LineString with its          *)
(* coordinates, or None.                                                   *)
(***************************************************************************)
\* the positions of the model: three on one line and one off it
Points == {<<0, 0>>, <<1, 0>>, <<2, 0>>, <<1, 1>>}

Tracks == UNION {[1..n -> [key : Keys, p : Points]] : n \in 0..MaxRows}

NoGeometry == [kind |-> "NoneType"]

\* get_coordinates(): the positions of the rows, in the order of the rows
get_coordinates(rows) == [i \in 1..Len(rows) |-> rows[i].p]

\* coordinates[start:end], positions counted from 0
slice(coords, start, end) ==
    LET stop == IF end < Len(coords) THEN end ELSE Len(coords)
    IN SubSeq(coords, start + 1, stop)

\* what the LineString constructor raises for a single point, by version
LineStringErrors == {"ValueError", "GEOSException"}

\* shapely's LineString(coordinates): an empty LineString for no point, an
\* error for one point
LineString(coords) ==
    IF Len(coords) = 1 THEN {Raised(e) : e \in LineStringErrors}
    ELSE {Returned([kind |-> "LineString", coords |-> coords])}

\* mutant: the LineString is built whatever the number of rows
get_linestring_unguarded(rows) == LineString(get_coordinates(rows))

\* Flight.get_linestring, and _get_linestring of FlightCollection.get_linestring
get_linestring(rows) ==
    IF Len(rows) < 2 THEN {Returned(NoGeometry)}
    ELSE LineString(get_coordinates(rows))

\* Flight.get_linestring_segment(start, end)
get_linestring_segment(rows, start, end) ==
    LineString(slice(get_coordinates(rows), start, end))

\* the rows of each group, in stored order
group_rows(rows, k) == SelectSeq(rows, LAMBDA r : r.key = k)

\* FlightCollection.get_linestring: aggregate over the groups observed, the
\* outcomes of _get_linestring by group key
fc_get_linestring(rows) ==
    [k \in {rows[i].key : i \in 1..Len(rows)} |-> get_linestring(group_rows(rows, k))]

\* p lies on the segment from a to b
OnSegment(p, a, b) ==
    IF a = b THEN p = a
    ELSE LET cross == (b[1] - a[1]) * (p[2] - a[2]) - (b[2] - a[2]) * (p[1] - a[1])
             dot == (p[1] - a[1]) * (b[1] - a[1]) + (p[2] - a[2]) * (b[2] - a[2])
             len2 == (b[1] - a[1]) * (b[1] - a[1]) + (b[2] - a[2]) * (b[2] - a[2])
         IN cross = 0 /\ dot >= 0 /\ dot <= len2

\* the tolerances of the model: 0, and 1 for any tolerance above 0
Tolerances == {0, 1}

\* LineString.simplify(tolerance, preserve_topology): the vertices kept, as
\* places in coords. The first and the last vertex are kept; with tolerance 0
\* a vertex is dropped only if it lies on the segment between the kept
\* vertices around it; with a tolerance above 0 any inner vertices may go.
simplify(coords, tolerance) ==
    LET n == Len(coords)
        before(S, i) == CHOOSE j \in S : j < i /\ \A m \in S : m < i => m <= j
        after(S, i) == CHOOSE j \in S : j > i /\ \A m \in S : m > i => m >= j
    IN {S \in SUBSET (1..n) :
           /\ 1 \in S /\ n \in S
           /\ tolerance = 0 =>
                 \A i \in (1..n) \ S :
                     OnSegment(coords[i], coords[before(S, i)], coords[after(S, i)])}

\* the vertices of the simplified LineString, in order
coords_of(coords, S) ==
    LET RECURSIVE take(_)
        take(i) == IF i > Len(coords) THEN <<>>
                   ELSE IF i \in S THEN <<coords[i]>> \o take(i + 1)
                   ELSE take(i + 1)
    IN take(1)

\* _simplify_linestring(df, tolerance, preserve_topology): the simplified
\* LineStrings possible, None when get_linestring gave None
_simplify_linestring(rows, tolerance) ==
    IF Len(rows) < 2 THEN {NoGeometry}
    ELSE {[kind |-> "LineString", coords |-> coords_of(get_coordinates(rows), S)] :
             S \in simplify(get_coordinates(rows), tolerance)}

dist2(p, q) == (p[1] - q[1]) * (p[1] - q[1]) + (p[2] - q[2]) * (p[2] - q[2])

\* the rows a KDTree over the positions may answer for the point q: those at
\* the least distance
nearest(coords, q) ==
    {i \in 1..Len(coords) : \A j \in 1..Len(coords) : dist2(coords[i], q) <= dist2(coords[j], q)}

\* kdtree.query(simplified.coords)[1]: one nearest row for each vertex, the
\* same row for equal vertices
query(coords, vertices) ==
    LET V == {vertices[i] : i \in 1..Len(vertices)}
    IN {[i \in 1..Len(vertices) |-> pick[vertices[i]]] :
           pick \in {f \in [V -> 1..Len(coords)] : \A v \in V : f[v] \in nearest(coords, v)}}

\* mutant: each row is taken once, in the order of the rows
iloc_unique(rows, indices) ==
    LET picked == {indices[i] : i \in 1..Len(indices)}
    IN SelectSeq([i \in 1..Len(rows) |-> i], LAMBDA i : i \in picked)

\* df.iloc[indices], the rows written as their places in df
iloc(rows, indices) == indices

\* _simplify_dataframe(df, simplified): df itself for None
_simplify_dataframe(rows, simplified) ==
    IF simplified = NoGeometry THEN {[i \in 1..Len(rows) |-> i]}
    ELSE {iloc(rows, indices) : indices \in query(get_coordinates(rows), simplified.coords)}

(***************************************************************************)
(* PathSpec: a Flight, or the collection of its rows grouped by key, and   *)
(* one path operation or one evaluation of an RDP stage on it.             *)
(***************************************************************************)
PathInit ==
    /\ track \in Tracks
    /\ geom = [op |-> "none"]
    /\ SplitIdle /\ RoleIdle /\ ColIdle /\ PipeIdle /\ ChainIdle /\ FillIdle /\ ResampleIdle /\ OrderIdle /\ RegroupIdle /\ SourceIdle

\* flight.get_linestring()
GetLinestring ==
    /\ geom.op = "none"
    /\ \E r \in get_linestring(track) :
          geom' = [op |-> "get_linestring", exc |-> r.exc, value |-> r.value]
    /\ UNCHANGED <<track, outsidePath>>

\* flight.get_linestring_segment(start, end)
GetLinestringSegment ==
    /\ geom.op = "none"
    /\ \E start \in 0..(Len(track) + 1), end \in 0..(Len(track) + 1) :
          \E r \in get_linestring_segment(track, start, end) :
              geom' = [op |-> "get_linestring_segment", start |-> start, end |-> end,
                       exc |-> r.exc, value |-> r.value]
    /\ UNCHANGED <<track, outsidePath>>

\* fc.get_linestring() for the collection grouped by key
FcGetLinestring ==
    /\ geom.op = "none"
    /\ \E r \in [DOMAIN fc_get_linestring(track) -> UNION {get_linestring(group_rows(track, k)) : k \in Keys}] :
          /\ \A k \in DOMAIN r : r[k] \in fc_get_linestring(track)[k]
          /\ geom' = [op |-> "fc_get_linestring", value |-> r]
    /\ UNCHANGED <<track, outsidePath>>

\* RDP(flight, tolerance, output_linestring=False).eval()
Simplify ==
    /\ geom.op = "none"
    /\ \E tolerance \in Tolerances :
          \E simplified \in _simplify_linestring(track, tolerance) :
              \E rows \in _simplify_dataframe(track, simplified) :
                  geom' = [op |-> "rdp", tolerance |-> tolerance,
                           simplified |-> simplified, rows |-> rows]
    /\ UNCHANGED <<track, outsidePath>>

PathNext == GetLinestring \/ GetLinestringSegment \/ FcGetLinestring \/ Simplify

PathSpec == PathInit /\ [][PathNext]_vars

(***************************************************************************)
(* Properties of the path operations and of the simplification.            *)
(***************************************************************************)
\* C16: the rows RDP returns for a Flight of 2 rows or more are as many
\* as the simplified LineString has vertices; the i-th is a row of the Flight
\* no other row of which is nearer to the i-th vertex; a row chosen for several
\* vertices is there as often. A Flight of fewer than 2 rows has no simplified
\* LineString and is returned as it is.
C16_OneNearestRowPerVertex ==
    geom.op = "rdp" =>
        /\ Len(track) < 2 =>
              /\ geom.simplified = NoGeometry
              /\ geom.rows = [i \in 1..Len(track) |-> i]
        /\ Len(track) >= 2 =>
              /\ geom.simplified.kind = "LineString"
              /\ Len(geom.rows) = Len(geom.simplified.coords)
              /\ \A i \in 1..Len(geom.rows) :
                    /\ geom.rows[i] \in 1..Len(track)
                    /\ \A j \in 1..Len(track) :
                          dist2(track[geom.rows[i]].p, geom.simplified.coords[i])
                              <= dist2(track[j].p, geom.simplified.coords[i])

\* a Flight that comes back to its first position: three vertices, three rows
\* returned, the first and the last of them the same row
C16_Witness ==
    /\ geom.op = "rdp"
    /\ Len(track) = 3
    /\ track[1].p = track[3].p
    /\ track[2].p # track[1].p
    /\ Len(geom.simplified.coords) = 3
    /\ Len(geom.rows) = 3
    /\ geom.rows[1] = geom.rows[3]

\* the Flight has rows at two different positions at least
TwoDistinctPoints == \E i, j \in 1..Len(track) : track[i].p # track[j].p

\* C17: with tolerance 0, for a Flight with two different positions at
\* least, the rows RDP returns are rows of the Flight in the order they have in
\* the Flight: a row returned after another does not stand before it in the
\* Flight.
C17_RecoveredRowsInOrder ==
    (geom.op = "rdp" /\ geom.tolerance = 0 /\ TwoDistinctPoints) =>
        /\ \A i \in 1..Len(geom.rows) : geom.rows[i] \in 1..Len(track)
        /\ \A i, j \in 1..Len(geom.rows) : i < j => geom.rows[i] <= geom.rows[j]

\* the LineString through the positions of these rows, in their order
PathThrough(rows) == [kind |-> "LineString", coords |-> [i \in 1..Len(rows) |-> rows[i].p]]

\* C19: get_linestring returns None exactly when the Flight has fewer
\* than 2 rows, and otherwise the LineString through the positions of all rows
\* in the order of the rows; the collection's get_linestring has one entry for
\* each group key, None for a group of fewer than 2 rows and otherwise the
\* LineString through the rows of the group.
C19_PathOrSentinel ==
    /\ geom.op = "get_linestring" =>
          /\ geom.exc = None
          /\ geom.value = <<NoGeometry>> <=> Len(track) < 2
          /\ Len(track) >= 2 => geom.value = <<PathThrough(track)>>
    /\ geom.op = "fc_get_linestring" =>
          /\ DOMAIN geom.value = {track[i].key : i \in 1..Len(track)}
          /\ \A k \in DOMAIN geom.value :
                LET group == group_rows(track, k)
                IN /\ geom.value[k].exc = None
                   /\ geom.value[k].value = <<NoGeometry>> <=> Len(group) < 2
                   /\ Len(group) >= 2 => geom.value[k].value = <<PathThrough(group)>>

\* a collection of two groups: A has two rows, with a row of B between them,
\* and gets the LineString through its two rows; B has one row and gets None
C19_Witness ==
    /\ geom.op = "fc_get_linestring"
    /\ Len(track) = 3
    /\ track[1].key = "A" /\ track[2].key = "B" /\ track[3].key = "A"
    /\ geom.value["A"].value = <<[kind |-> "LineString", coords |-> <<track[1].p, track[3].p>>]>>
    /\ geom.value["B"].value = <<NoGeometry>>

\* C20: get_linestring_segment(start, end) does for the rows at the
\* places start..end-1 what get_linestring does for all rows: it returns the
\* LineString through them when they are 2 or more, and None, without raising,
\* when they are fewer.
C20_SegmentPathOrSentinel ==
    geom.op = "get_linestring_segment" =>
        LET part == slice(track, geom.start, geom.end)
        IN /\ geom.exc = None
           /\ Len(part) < 2 => geom.value = <<NoGeometry>>
           /\ Len(part) >= 2 => geom.value = <<PathThrough(part)>>

(***************************************************************************)
(* Further properties of the pipelines.                                    *)
(***************************************************************************)
\* the class of what a stage returns when given an object of class kind and
\* returning a Flight or a FlightCollection
StageOutput(st, kind) == IF st.kind = "TimeGapSplitter" THEN "FlightCollection" ELSE kind

\* C25: eval() on the last of k chained stages applies stages 1..k in
\* the order of chaining: the first stage is given the original object, each
\* later stage is given what the stage before it returned and is dispatched
\* on the class of that (a stage after a splitter is given the collection,
\* not the original Flight), and eval returns only after all k have run.
C25_StagesRunInChainOrder ==
    res.op = "eval" =>
        /\ Len(res.ran) <= Len(pipes)
        /\ res.exc = None => Len(res.ran) = Len(pipes)
        /\ Len(res.ran) >= 1 => res.ran[1] = obj.kind
        /\ \A i \in 2..Len(res.ran) :
              /\ ~GeometryOnly(pipes[i - 1])
              /\ res.ran[i] = StageOutput(pipes[i - 1], res.ran[i - 1])

\* a row-recovery RDP chained after a splitter on a Flight: the splitter is
\* given the Flight, the RDP stage the collection
C25_Witness ==
    /\ res.op = "eval"
    /\ obj.kind = "Flight"
    /\ pipes = <<[kind |-> "TimeGapSplitter"], [kind |-> "RDP", output_linestring |-> FALSE]>>
    /\ res.ran = <<"Flight", "FlightCollection">>
    /\ res.exc = None
    /\ res.value[1].kind = "FlightCollection"

\* C26: a TimeGapSplitter built on a helper stage whose data has no
\* datetime64 index raises ValueError at construction, as it does when built
\* on that data itself, and so no evaluation ever hands a splitter stage an
\* object without a datetime64 index.
C26_ChainedSplitterRejected ==
    /\ (/\ res.op \in {"construct", "pipe"}
        /\ res.stage.cls = "TimeGapSplitter"
        /\ res.on \in {"TimeGapSplitter", "RDP"}
        /\ ~obj.datetime) => res.exc = "ValueError"
    /\ (res.op = "eval" /\ ~obj.datetime) =>
          \A i \in 1..Len(res.ran) : pipes[i].kind # "TimeGapSplitter"

(***************************************************************************)
(* Further properties of the splitter.                                     *)
(***************************************************************************)
\* the rows (by identity) that the result puts in segment s
Segment(s) == {out[i].id : i \in {j \in 1..Len(out) : out[j].split = s}}

\* the number of rows of the result that carry the identity r
Copies(r) == Cardinality({i \in 1..Len(out) : out[i].id = r})

\* C24: the segments of a split partition the input rows: every row of the
\* input appears in exactly one segment, once, with its key and time as
\* they were, and the segments hold no other row.
C24_SplitPartitionsRows ==
    stage \in {"flight", "collection"} =>
        /\ \A r \in 1..Len(table) :
              /\ Copies(r) = 1
              /\ Cardinality({s \in SegmentIds : r \in Segment(s)}) = 1
        /\ UNION {Segment(s) : s \in SegmentIds} = 1..Len(table)
        /\ \A s \in SegmentIds : Segment(s) # {}
        /\ \A i \in 1..Len(out) :
              out[i].key = table[out[i].id].key /\ out[i].t = table[out[i].id].t

\* three rows, two of them with the same key and the same time, stored out
\* of order and split into more than one segment
C24_Witness ==
    /\ stage = "collection"
    /\ Len(table) = 3
    /\ table[1].key = table[3].key /\ table[1].t = table[3].t
    /\ table[2].key = table[1].key /\ table[2].t < table[1].t
    /\ Cardinality(SegmentIds) = 2
    /\ Segment(1) = {1, 3}

(***************************************************************************)
(* Further properties of role binding.                                     *)
(***************************************************************************)
\* C30: right after Flight(...) on a plain DataFrame has succeeded, every
\* optional role that is bound names a column the constructed Flight has,
\* whatever the role arguments (also an optional-role argument naming the
\* latitude or longitude column, which is consumed into the geometry).
C30_RawBindingsNameColumns ==
    (call.op = "Flight" /\ src.kind = "DataFrame" /\ call.exc = None) =>
        \A n \in OptionalRoles :
            frame.attrs[n] = None \/ count(frame.columns, frame.attrs[n]) >= 1

(***************************************************************************)
(* Helpers by reference (helper_base.py).                                  *)
(*                                                                         *)
(* A helper is known by its place in helpers; its pipes attribute is a     *)
(* reference to a list object, known by its place in lists.  A list holds  *)
(* helpers, by their places.  ChainSpec builds helpers on the data objects *)
(* and on one another, and runs the loop of eval() on any of them.         *)
(***************************************************************************)
\* the objects helpers are built on: a Flight and a FlightCollection
DataObjects == {"flight", "collection"}

\* the stage classes
HelperClasses == {"TimeGapSplitter", "RDP"}

\* mutant: self.pipes.append(self), on the list taken over
pipes_append_self(ls, l, self) ==
    [lists |-> [ls EXCEPT ![l] = Append(@, self)], pipes |-> l]

\* self.pipes = self.pipes + [self]: a new list; the list l stays as it is
pipes_plus_self(ls, l, self) ==
    [lists |-> Append(ls, Append(ls[l], self)), pipes |-> Len(ls) + 1]

\* HelperBase.__init__(self, obj), obj being the helper at place on or, with
\* on = 0, the data object d: the lists afterwards and the attributes of self
HelperBase__init__refs(hs, ls, on, d, self) ==
    LET taken == IF on # 0
                 THEN [lists |-> ls, pipes |-> hs[on].pipes, data |-> hs[on].data]
                 ELSE [lists |-> Append(ls, <<>>), pipes |-> Len(ls) + 1, data |-> d]
        r == pipes_plus_self(taken.lists, taken.pipes, self)
    IN [lists |-> r.lists, pipes |-> r.pipes, data |-> taken.data]

\* the loop of HelperBase.eval(self): the stages gone over, from self.data
eval_loop(hs, ls, self) == [on |-> self, data |-> hs[self].data, stages |-> ls[hs[self].pipes]]

ChainInit ==
    /\ helpers = <<>>
    /\ lists = <<>>
    /\ looped = [on |-> 0]
    /\ SplitIdle /\ RoleIdle /\ ColIdle /\ PipeIdle /\ PathIdle /\ FillIdle /\ ResampleIdle /\ OrderIdle /\ RegroupIdle /\ SourceIdle

\* cls(obj): a new helper on a data object or on a helper made before; the
\* helper keeps, for the record, what it was built on and the data that had
NewHelper ==
    /\ Len(helpers) < MaxStages
    /\ \E cls \in HelperClasses, on \in 0..Len(helpers), d \in DataObjects :
          /\ on # 0 => d = helpers[on].data
          /\ LET self == Len(helpers) + 1
                 r == HelperBase__init__refs(helpers, lists, on, d, self)
             IN /\ helpers' = Append(helpers, [cls |-> cls, pipes |-> r.pipes, data |-> r.data,
                                               built_on |-> on, built_data |-> d])
                /\ lists' = r.lists
    /\ UNCHANGED <<looped, outsideChain>>

\* helper.eval()
EvalHelper ==
    /\ \E self \in 1..Len(helpers) : looped' = eval_loop(helpers, lists, self)
    /\ UNCHANGED <<helpers, lists, outsideChain>>

ChainNext == NewHelper \/ EvalHelper

ChainSpec == ChainInit /\ [][ChainNext]_vars

RECURSIVE ChainOf(_)
\* the helpers from the first one built on the data object down to h
ChainOf(h) ==
    IF helpers[h].built_on = 0 THEN <<h>> ELSE Append(ChainOf(helpers[h].built_on), h)

\* C29: building a helper on an existing helper leaves the existing one
\* as it was: at any time the stages of each helper are the helpers it was
\* chained through up to and including itself, and its data is the data it
\* was built with; eval() on a helper goes over just those stages; and of two
\* helpers built on the same helper neither has the other among its stages.
C29_ChainingLeavesEarlierStage ==
    /\ \A h \in 1..Len(helpers) :
          /\ lists[helpers[h].pipes] = ChainOf(h)
          /\ helpers[h].data = helpers[h].built_data
    /\ looped.on # 0 =>
          /\ looped.stages = ChainOf(looped.on)
          /\ looped.data = helpers[looped.on].built_data
    /\ \A h1, h2 \in 1..Len(helpers) :
          (h1 # h2 /\ helpers[h1].built_on = helpers[h2].built_on) =>
              \A i \in 1..Len(lists[helpers[h1].pipes]) : lists[helpers[h1].pipes][i] # h2

\* two helpers built one after the other on helper 1, then eval() on
\* helper 1: the loop goes over helper 1 alone
C29_Witness ==
    /\ Len(helpers) = 3
    /\ helpers[2].built_on = 1
    /\ helpers[3].built_on = 1
    /\ looped.on = 1
    /\ looped.stages = <<1>>
    /\ lists[helpers[3].pipes] = <<1, 3>>

(***************************************************************************)
(* Resampling of a non-numeric column (flight.py, flight_collection.py).   *)
(*                                                                         *)
(* The grid step is one time unit, so that the buckets are the index       *)
(* values from the earliest to the latest one of the column.  A value is a *)
(* string; NaN stands for a missing one.                                   *)
(***************************************************************************)
NaN == "NaN"

\* the values a non-numeric column holds
Values == {"a", "b"}

\* the buckets of resample(freq): from the earliest index value to the latest
buckets(rows) ==
    LET ts == {rows[i].t : i \in 1..Len(rows)}
    IN IF ts = {} THEN <<>>
       ELSE LET lo == CHOOSE t \in ts : \A u \in ts : t <= u
                hi == CHOOSE t \in ts : \A u \in ts : u <= t
            IN [i \in 1..(hi - lo + 1) |-> lo + i - 1]

\* .first(): for each bucket the first value in it that is not missing
first(rows) ==
    LET bs == buckets(rows)
    IN [b \in 1..Len(bs) |->
          LET seen == {i \in 1..Len(rows) : rows[i].t = bs[b] /\ rows[i].v # NaN}
          IN IF seen = {} THEN NaN
             ELSE rows[CHOOSE i \in seen : \A j \in seen : i <= j].v]

\* .bfill(): a missing value is replaced by the next one that is not missing
bfill(s) ==
    [i \in 1..Len(s) |->
        LET after == {j \in i..Len(s) : s[j] # NaN}
        IN IF after = {} THEN NaN ELSE s[CHOOSE j \in after : \A k \in after : j <= k]]

\* .ffill(): a missing value is replaced by the last one before it
ffill(s) ==
    [i \in 1..Len(s) |->
        LET before == {j \in 1..i : s[j] # NaN}
        IN IF before = {} THEN NaN ELSE s[CHOOSE j \in before : \A k \in before : k <= j]]

\* data_nonnumeric.resample(freq).first().infer_objects(copy=False).bfill().ffill()
resample_nonnumeric(rows) == ffill(bfill(first(rows)))

\* the columns of the model: at least one row, any stored order
SampleColumns ==
    UNION {[1..n -> [t : Times, v : Values \cup {NaN}]] : n \in 1..MaxRows}

FillInit ==
    /\ samples \in SampleColumns
    /\ filled = [op |-> "none"]
    /\ SplitIdle /\ RoleIdle /\ ColIdle /\ PipeIdle /\ PathIdle /\ ChainIdle /\ ResampleIdle /\ OrderIdle /\ RegroupIdle /\ SourceIdle

\* flight.resample(freq), as far as one non-numeric column goes
ResampleColumn ==
    /\ filled.op = "none"
    /\ filled' = [op |-> "resample", grid |-> buckets(samples),
                  column |-> resample_nonnumeric(samples)]
    /\ UNCHANGED <<samples, outsideFill>>

FillNext == ResampleColumn

FillSpec == FillInit /\ [][FillNext]_vars

\* the values observed at index value t, in stored order of their rows
ObservedAt(t) == {i \in 1..Len(samples) : samples[i].t = t /\ samples[i].v # NaN}

\* the first value observed at index value t
FirstObservedAt(t) == samples[CHOOSE i \in ObservedAt(t) : \A j \in ObservedAt(t) : i <= j].v

\* C27: each bucket with an observed value takes the first value observed
\* in it; an empty bucket takes the value of the nearest observed bucket
\* before it (forward fill), and the value of the nearest observed bucket
\* after it only when no bucket before it is observed (leading buckets).
C27_ForwardFillFirst ==
    filled.op = "resample" =>
        \A b \in 1..Len(filled.grid) :
            LET t == filled.grid[b]
                earlier == {u \in 0..(t - 1) : ObservedAt(u) # {}}
                later == {u \in (t + 1)..MaxTime : ObservedAt(u) # {}}
            IN IF ObservedAt(t) # {} THEN filled.column[b] = FirstObservedAt(t)
               ELSE IF earlier # {}
               THEN filled.column[b] =
                        FirstObservedAt(CHOOSE u \in earlier : \A w \in earlier : w <= u)
               ELSE IF later # {}
               THEN filled.column[b] =
                        FirstObservedAt(CHOOSE u \in later : \A w \in later : u <= w)
               ELSE filled.column[b] = NaN

(***************************************************************************)
(* Resampling and the role bindings (flight.py, flight_collection.py).     *)
(*                                                                         *)
(* As in the role part an object is its class, the number of columns of    *)
(* each label and its bindings.  ResampleSpec resamples a Flight, or the   *)
(* collection of that Flight grouped by one column.                        *)
(***************************************************************************)
\* the columns of concat([resampled, resampled_nonnumeric], axis=1): the
\* coordinates as lon and lat, and the columns of the Flight but the geometry
\* column; the key columns of a collection are in the index
resample_columns(columns, keys) ==
    [c \in Columns |->
        IF c = "geometry" \/ c \in keys THEN 0
        ELSE columns[c] + (IF c \in {"lon", "lat"} THEN 1 ELSE 0)]

\* self._copy_attrs(other)
_copy_attrs(self, other) == [self EXCEPT !.attrs = other.attrs]

\* Flight.resample(self)
Flight_resample(self) ==
    LET made == Flight__init__(
                    Object("DataFrame", resample_columns(self.columns, {}), NoAttrs, <<>>),
                    NoArgs)
    IN IF made.exc # None THEN made ELSE Return(_copy_attrs(made.value, self))

\* resampled.data.reset_index(key_name, inplace=True)
reset_index_inplace(data, keys) ==
    [data EXCEPT !.columns = [c \in Columns |-> IF c \in keys THEN @[c] + 1 ELSE @[c]]]

\* FlightCollection.resample(self) for the collection of data grouped by the
\* columns keys: the Flight behind the collection returned
FlightCollection_resample(data, keys) ==
    LET made == Flight__init__(
                    Object("DataFrame", resample_columns(data.columns, keys), NoAttrs, <<>>),
                    NoArgs)
    IN IF made.exc # None THEN made ELSE Return(reset_index_inplace(made.value, keys))

\* the Flights that are resampled: made by Flight(...) from a table, with
\* every binding naming a column and without columns named lat or lon
SourceFlights ==
    {Flight__init__(p[1], p[2]).value :
        p \in {q \in RawInputs \X InitArgs :
                  LET x == Flight__init__(q[1], q[2])
                  IN /\ x.exc = None
                     /\ WellBound(x.value)
                     /\ x.value.columns["lat"] = 0
                     /\ x.value.columns["lon"] = 0}}

\* the key columns of a collection: one column of those modelled, or none of
\* them (a column the model does not follow)
KeySets(flight) == {{}} \cup {{c} : c \in {n \in Names : flight.columns[n] = 1}}

ResampleInit ==
    /\ \E f \in SourceFlights : \E k \in KeySets(f) : source = [flight |-> f, keys |-> k]
    /\ resampled = [op |-> "none", exc |-> None]
    /\ SplitIdle /\ RoleIdle /\ ColIdle /\ PipeIdle /\ PathIdle /\ ChainIdle /\ FillIdle /\ OrderIdle /\ RegroupIdle /\ SourceIdle

\* source.resample()
ResampleFlight ==
    /\ resampled.op = "none"
    /\ LET r == Flight_resample(source.flight)
       IN resampled' = [op |-> "flight", exc |-> r.exc, flight |-> r.value]
    /\ UNCHANGED <<source, outsideResample>>

\* source.groupby(keys).resample()
ResampleCollection ==
    /\ resampled.op = "none"
    /\ LET r == FlightCollection_resample(source.flight, source.keys)
       IN resampled' = [op |-> "collection", exc |-> r.exc, flight |-> r.value]
    /\ UNCHANGED <<source, outsideResample>>

ResampleNext == ResampleFlight \/ ResampleCollection

ResampleSpec == ResampleInit /\ [][ResampleNext]_vars

\* C22: the Flight that resample() returns, and the Flight behind the
\* collection that resample() of a collection returns, have each of the four
\* optional roles bound as the source has it (also when the source binds a
\* role to a column that is none of the role's candidate names).
C22_ResampleInheritsBindings ==
    (resampled.op \in {"flight", "collection"} /\ resampled.exc = None) =>
        \A n \in OptionalRoles : resampled.flight.attrs[n] = source.flight.attrs[n]

(***************************************************************************)
(* The order of the groups of a collection (flight_collection.py, over     *)
(* pandas groupby).                                                        *)
(*                                                                         *)
(* A collection is grouped by one or two key columns; a row of its Flight  *)
(* is known by its place and carries a tuple of key values.  pandas gives  *)
(* each key column codes: the rank of the value among the sorted values    *)
(* with sort=True, the order of first appearance with sort=False.          *)
(***************************************************************************)
\* factorize(column, sort): the code of value v in the key column c
code(rows, c, v, sort) ==
    IF sort
    THEN Cardinality({rows[i][c] : i \in 1..Len(rows)} \cap {k \in Keys : KeyRank(k) < KeyRank(v)})
    ELSE LET at == CHOOSE i \in 1..Len(rows) :
                      rows[i][c] = v /\ \A j \in 1..(i - 1) : rows[j][c] # v
         IN Cardinality({rows[j][c] : j \in 1..(at - 1)})

\* the codes of a key tuple, one per key column
codes(rows, key, sort) == [c \in 1..Len(key) |-> code(rows, c, key[c], sort)]

\* code tuples in lexicographic order: the order of get_group_index
CodesLess(a, b) ==
    \E c \in 1..Len(a) : a[c] < b[c] /\ \A d \in 1..(c - 1) : a[d] = b[d]

\* the key tuples that occur
group_keys(rows) == {rows[i] : i \in 1..Len(rows)}

\* the place at which a key tuple is first seen
first_seen(rows, key) == CHOOSE i \in 1..Len(rows) : rows[i] = key /\ \A j \in 1..(i - 1) : rows[j] # key

RECURSIVE in_order(_, _, _, _)
\* the keys in S in ascending order of less(a, b)
in_order(S, rows, sort, bycodes) ==
    IF S = {} THEN <<>>
    ELSE LET before(a, b) ==
                 IF bycodes THEN CodesLess(codes(rows, a, sort), codes(rows, b, sort))
                 ELSE first_seen(rows, a) < first_seen(rows, b)
             x == CHOOSE a \in S : \A b \in S \ {a} : before(a, b)
         IN <<x>> \o in_order(S \ {x}, rows, sort, bycodes)

\* list(collection.indices.keys()): get_indexer_dict goes through the rows
\* sorted by group index, which is the code tuple read as a number
indices_keys(rows, sort) == in_order(group_keys(rows), rows, sort, TRUE)

\* the result index of the grouper: compress_group_index(group_index, sort)
\* numbers the groups by code tuple with sort=True, by first appearance
\* with sort=False
result_index(rows, sort) == in_order(group_keys(rows), rows, sort, sort)

\* collection.get_group(key): the rows of the group, by place, in stored order
get_group(rows, key) == {i \in 1..Len(rows) : rows[i] = key}

\* _CollectionIndexer.__getitem__(key) for an int key within range, counted
\* from 0
CollectionIndexer__getitem__(rows, sort, key) ==
    LET indices == indices_keys(rows, sort)
    IN [key |-> indices[key + 1], rows |-> get_group(rows, indices[key + 1])]

\* FlightCollection.__iter__: the (key, Flight) pairs in the order yielded
FlightCollection__iter__(rows, sort) ==
    LET keys == result_index(rows, sort)
    IN [g \in 1..Len(keys) |-> [key |-> keys[g], rows |-> get_group(rows, keys[g])]]

\* the key tuples of the rows of a Flight grouped by nk columns
KeyRows == UNION {[1..n -> [1..nk -> Keys]] : n \in 1..MaxRows, nk \in 1..2}

OrderInit ==
    /\ \E rows \in KeyRows, sort \in BOOLEAN : grouped = [rows |-> rows, sort |-> sort]
    /\ given = [op |-> "none"]
    /\ SplitIdle /\ RoleIdle /\ ColIdle /\ PipeIdle /\ PathIdle /\ ChainIdle /\ FillIdle /\ ResampleIdle /\ RegroupIdle /\ SourceIdle

\* list(collection)
Iterate ==
    /\ given' = [op |-> "iter", pairs |-> FlightCollection__iter__(grouped.rows, grouped.sort)]
    /\ UNCHANGED <<grouped, outsideOrder>>

\* collection.flights[i]
FlightsGetitem ==
    /\ \E i \in 0..(Cardinality(group_keys(grouped.rows)) - 1) :
          LET r == CollectionIndexer__getitem__(grouped.rows, grouped.sort, i)
          IN given' = [op |-> "flights", i |-> i, key |-> r.key, rows |-> r.rows]
    /\ UNCHANGED <<grouped, outsideOrder>>

OrderNext == Iterate \/ FlightsGetitem

OrderSpec == OrderInit /\ [][OrderNext]_vars

\* the key tuples before key in sorted order, the values compared column by
\* column
SortedBefore(key) ==
    {k \in group_keys(grouped.rows) :
        \E c \in 1..Len(key) :
            /\ KeyRank(k[c]) < KeyRank(key[c])
            /\ \A d \in 1..(c - 1) : k[d] = key[d]}

\* the key tuples first seen before key is
SeenBefore(key) ==
    {k \in group_keys(grouped.rows) : first_seen(grouped.rows, k) < first_seen(grouped.rows, key)}

\* the place of a group in the group order, counted from 0
GroupPlace(key) ==
    Cardinality(IF grouped.sort THEN SortedBefore(key) ELSE SeenBefore(key))

\* C21: flights[i] is the group at place i of the group order (sorted key
\* order with sort=True, order of first appearance with sort=False), which
\* is the group of the i-th pair an iteration yields; every iteration yields
\* the groups in that order.
C21_OrdinalAccessFollowsGroupOrder ==
    /\ given.op = "flights" =>
          /\ GroupPlace(given.key) = given.i
          /\ given.rows = {r \in 1..Len(grouped.rows) : grouped.rows[r] = given.key}
          /\ FlightCollection__iter__(grouped.rows, grouped.sort)[given.i + 1].key = given.key
    /\ given.op = "iter" =>
          /\ Len(given.pairs) = Cardinality(group_keys(grouped.rows))
          /\ \A g \in 1..Len(given.pairs) : GroupPlace(given.pairs[g].key) = g - 1

(***************************************************************************)
(* Collection-level operations that group again (flight_collection.py).    *)
(*                                                                         *)
(* A collection is grouped by the values of one key, given as the name of  *)
(* a column, as a list with that name, as the Series of that column, or as *)
(* the name of an index level.  A row is known by its place.               *)
(***************************************************************************)
\* the forms of the keys of a collection
KeyForms == {"str", "list", "Series", "level"}

\* FlightCollection.__init__: self.key_names for keys of each form; with
\* level= the keys are None and no name is kept
key_names(form) ==
    CASE form = "str" -> <<"key">>
      [] form = "list" -> <<"key">>
      [] form = "Series" -> <<"key">>
      [] form = "level" -> <<>>

\* the groups of a collection: for each key value the rows that carry it
groups_of(rows) ==
    [k \in {rows[i] : i \in 1..Len(rows)} |-> {i \in 1..Len(rows) : rows[i] = k}]

\* frame.groupby(names) on the frame that apply() returned.  Without names
\* pandas raises ValueError (no group keys passed).  With the name of the key
\* the frame may carry it as a column and as an index level at once, which
\* FlightCollection.__init__ (reset_index) or pandas rejects with ValueError;
\* whether apply() adds the level depends on the pandas at hand.
groupby(rows, names) ==
    IF names = <<>> THEN {Raised("ValueError")}
    ELSE {Returned(groups_of(rows)), Raised("ValueError")}

\* the collection-level operations that end in .groupby(self.key_names); the
\* function applied to each group keeps its rows
RegroupOps == {"set_precision", "to_crs", "to_latlon", "to_xy"}

\* self.apply(...).groupby(self.key_names)
apply_groupby(fc) == groupby(fc.rows, key_names(fc.form))

set_precision(fc) == apply_groupby(fc)

to_crs(fc) == apply_groupby(fc)

to_latlon(fc) == to_crs(fc)

to_xy(fc) == to_crs(fc)

regroup(fc, op) ==
    CASE op = "set_precision" -> set_precision(fc)
      [] op = "to_crs" -> to_crs(fc)
      [] op = "to_latlon" -> to_latlon(fc)
      [] op = "to_xy" -> to_xy(fc)

RegroupInit ==
    /\ \E form \in KeyForms, n \in 1..MaxRows : \E rows \in [1..n -> Keys] :
          collection = [form |-> form, rows |-> rows]
    /\ regrouped = [op |-> "none", exc |-> None]
    /\ SplitIdle /\ RoleIdle /\ ColIdle /\ PipeIdle /\ PathIdle /\ ChainIdle /\ FillIdle /\ ResampleIdle /\ OrderIdle /\ SourceIdle

\* fc.set_precision(...), fc.to_crs(...), fc.to_latlon(), fc.to_xy()
Regroup ==
    /\ \E op \in RegroupOps : \E r \in regroup(collection, op) :
          regrouped' = [op |-> op, exc |-> r.exc, groups |-> r.value]
    /\ UNCHANGED <<collection, outsideRegroup>>

RegroupNext == Regroup

RegroupSpec == RegroupInit /\ [][RegroupNext]_vars

\* C23: whatever the form of the keys of a collection (a column name, a
\* list of names, a key Series, an index level), set_precision, to_crs,
\* to_latlon and to_xy return a collection grouped by the same keys: the same
\* group keys, and in each group the same rows as in the input.
C23_RegroupedBySameKeys ==
    regrouped.op \in RegroupOps =>
        /\ regrouped.exc = None
        /\ regrouped.groups = <<groups_of(collection.rows)>>

(***************************************************************************)
(* The splitter and the object it was built on, by reference (splitter.py, *)
(* __init__.py).                                                           *)
(*                                                                         *)
(* A frame object is known by its place in heap and holds its rows in      *)
(* stored order; a row has its identity, group key, index value and the    *)
(* values of its further columns by name.  The source Flight is object 1.  *)
(* The order sort_index gives rows of equal index value is not specified,  *)
(* but it is a function of the frame: the same frame sorts the same way.   *)
(***************************************************************************)
\* the Flight a splitter is built on: the rows of tbl with the columns more
SourceFrame(tbl, more) ==
    [i \in 1..Len(tbl) |->
        [id |-> i, key |-> tbl[i].key, t |-> tbl[i].t, cols |-> [c \in more |-> -1]]]

\* the ways sort_index may break ties: an order of precedence of the places
TieOrders == {p \in [1..MaxRows -> 1..MaxRows] : \A i, j \in 1..MaxRows : p[i] = p[j] => i = j}

RECURSIVE sorted_places(_, _, _)
\* the places in S by ascending index value, ties as pri has them
sorted_places(data, S, pri) ==
    IF S = {} THEN <<>>
    ELSE LET first_place(x) == CHOOSE i \in 1..MaxRows : pri[i] = x
             x == CHOOSE y \in S : \A z \in S \ {y} :
                     \/ data[y].t < data[z].t
                     \/ data[y].t = data[z].t /\ first_place(y) < first_place(z)
         IN <<x>> \o sorted_places(data, S \ {x}, pri)

\* the rows of data in the order sort_index gives them
sorted_rows(data, pri) ==
    LET p == sorted_places(data, 1..Len(data), pri)
    IN [i \in 1..Len(data) |-> data[p[i]]]

\* mutant: the frame sorted in place (sort_index(inplace=True))
sort_index_inplace(h, ref, pri) ==
    [heap |-> [h EXCEPT ![ref] = sorted_rows(h[ref], pri)], ref |-> ref]

\* flight.sort_index(): a new frame object; with copy_on_write on, what is
\* written to it later is never seen through flight
sort_index_new(h, ref, pri) ==
    [heap |-> Append(h, sorted_rows(h[ref], pri)), ref |-> Len(h) + 1]

\* fc.data.copy(): a new frame object with the same rows
copy_new(h, ref) == [heap |-> Append(h, h[ref]), ref |-> Len(h) + 1]

\* data.reset_index().set_index([*group_index, time_index]).sort_index()
\* .reset_index().set_index(time_index): a new frame object
sort_index_multi_new(h, ref) ==
    [heap |-> Append(h, sort_index_multi(h[ref])), ref |-> Len(h) + 1]

\* data[name] = values, on the frame object at ref
setitem_at(h, ref, name, values) ==
    LET data == h[ref]
        written(i) == [c \in DOMAIN data[i].cols \cup {name} |->
                          IF c = name THEN values[i] ELSE data[i].cols[c]]
    IN [h EXCEPT ![ref] =
           [i \in 1..Len(data) |->
               [id |-> data[i].id, key |-> data[i].key, t |-> data[i].t,
                cols |-> written(i)]]]

\* TimeGapSplitter._eval_flight(flight): the heap afterwards and the frame of
\* the collection returned
_eval_flight_refs(h, flight, g, name, pri) ==
    LET s == sort_index_new(h, flight, pri)
        t_diff == fillna(diff(to_series(s.heap[s.ref])), 0)
    IN [heap |-> setitem_at(s.heap, s.ref, name, cumsum(gt(t_diff, g))), ref |-> s.ref]

\* TimeGapSplitter._eval_flight_collection(fc), fc.data being the frame at ref
_eval_flight_collection_refs(h, fc_data, g, name) ==
    LET c == copy_new(h, fc_data)
        s == sort_index_multi_new(c.heap, c.ref)
        data == s.heap[s.ref]
        t_diff == fillna(diff(to_series(data)), 0)
    IN [heap |-> setitem_at(s.heap, s.ref, name,
                            ngroup(split_group_keys(data, cumsum(gt(t_diff, g))))),
        ref |-> s.ref]

\* the tables of this part: every index value is the earliest or the latest
SourceTables == UNION {[1..n -> [key : Keys, t : {0, MaxTime}]] : n \in 1..MaxRows}

SourceInit ==
    /\ \E tbl \in SourceTables, more \in SUBSET {"split"}, pri \in TieOrders :
          /\ setup = [table |-> tbl, more |-> more, gap |-> 0, name |-> "split", pri |-> pri]
          /\ heap = <<SourceFrame(tbl, more)>>
    /\ results = <<>>
    /\ SplitIdle /\ RoleIdle /\ ColIdle /\ PipeIdle /\ PathIdle /\ ChainIdle /\ FillIdle /\ ResampleIdle /\ OrderIdle /\ RegroupIdle

\* splitter.eval(), the splitter built on the Flight: at most twice in a run
EvalOnFlight ==
    /\ Len(results) < 2
    /\ LET r == _eval_flight_refs(heap, 1, setup.gap, setup.name, setup.pri)
       IN /\ heap' = r.heap
          /\ results' = Append(results, [on |-> "Flight", ref |-> r.ref])
    /\ UNCHANGED <<setup, outsideSource>>

\* splitter.eval(), the splitter built on the collection of the Flight
\* grouped by its key column
EvalOnCollection ==
    /\ Len(results) < 2
    /\ LET r == _eval_flight_collection_refs(heap, 1, setup.gap, setup.name)
       IN /\ heap' = r.heap
          /\ results' = Append(results, [on |-> "FlightCollection", ref |-> r.ref])
    /\ UNCHANGED <<setup, outsideSource>>

SourceNext == EvalOnFlight \/ EvalOnCollection

SourceSpec == SourceInit /\ [][SourceNext]_vars

\* C28: after eval() of a splitter the Flight it was built on has the rows,
\* the row order and the columns it had before (no segment-id column added
\* to it, none overwritten in it), and is none of the frames returned; so a
\* second eval() on the same object returns a frame equal to the first.
C28_EvalLeavesSourceAsItWas ==
    /\ Len(results) >= 1 => heap[1] = SourceFrame(setup.table, setup.more)
    /\ \A i \in 1..Len(results) : results[i].ref # 1
    /\ \A i, j \in 1..Len(results) :
          results[i].on = results[j].on => heap[results[i].ref] = heap[results[j].ref]

\* a Flight that has a column "split" already and whose rows are stored
\* later-first, evaluated twice: both results are sorted and carry segment
\* ids 0 and 1 in "split", the Flight still holds -1 in every row
C28_Witness ==
    /\ Len(results) = 2
    /\ results[1].on = "Flight" /\ results[2].on = "Flight"
    /\ setup.more = {"split"}
    /\ Len(setup.table) = 2
    /\ setup.table[1].t > setup.table[2].t
    /\ results[1].ref # results[2].ref
    /\ [i \in 1..2 |-> heap[results[2].ref][i].cols["split"]] = <<0, 1>>
    /\ [i \in 1..2 |-> heap[results[2].ref][i].id] = <<2, 1>>
    /\ \A i \in 1..2 : heap[1][i].cols["split"] = -1

====
